---- MODULE Spec2Model ----
(***************************************************************************)
(* Model of httcp/production/PhiCP_Estimator.py: the acoplanarity angle    *)
(* (PhiCP) of a pair of decay legs.                                        *)
(*                                                                         *)
(* Numbers.  Angles are exact multiples of pi/2 (Pi == 2), which is what   *)
(* arccos gives on the directions of the model: the six unit vectors along *)
(* the axes.  A floating-point value is a record [nan, v]; NaN compares    *)
(* false with everything and propagates through arithmetic, as in numpy.   *)
(* A cosine is a fixed-point number with Scale units per 1.0; the dot      *)
(* product of two unit vectors carries a rounding error of at most MaxErr  *)
(* units, the way a float dot product of normalised vectors does.          *)
(*                                                                         *)
(* The Lorentz-vector library (boost, pvec, unit of a boosted vector,      *)
(* energy, mass) is external to this file: what it returns for a raw       *)
(* vector is an input of the model (the record lib of _reStructureVecs),   *)
(* while the algebra the file itself writes on those results (dot, cross,  *)
(* subtraction, unit) is computed.                                         *)
(*                                                                         *)
(* The second part models two histogram hooks of httcp/config/             *)
(* hist_hooks.py, qcd_estimation and closure_test, on histograms with the  *)
(* axes category -> shift -> variable and exact rational bin values.       *)
(***************************************************************************)
EXTENDS Integers, Sequences, FiniteSets, TLC

\* ------------------------------------------------------------- bounds
\* fixed-point units per 1.0 of a cosine
Scale == 4
\* largest rounding error, in those units, of a floating-point dot product
MaxErr == 1
\* largest total energy of a boosted pion and pi0 (each at least 1)
MaxE == 3
\* events in the batch; a raw vector out of line with the others has one more
NEvents == 2
\* how far from the rho mass, in units of 1e-5 GeV, a pion-pair mass lies
MassSpread == 1

\* ------------------------------------------------------------- floats
NaN == [nan |-> TRUE, v |-> 0]

F(x) == [nan |-> FALSE, v |-> x]

\* a < b, a > b on floats: false when either side is NaN
FLt(a, b) == ~a.nan /\ ~b.nan /\ a.v < b.v

FGt(a, b) == ~a.nan /\ ~b.nan /\ a.v > b.v

FAdd(a, b) == IF a.nan \/ b.nan THEN NaN ELSE F(a.v + b.v)

FSub(a, b) == IF a.nan \/ b.nan THEN NaN ELSE F(a.v - b.v)

\* ak.where(cond, a, b), one event
Where(cond, a, b) == IF cond THEN a ELSE b

\* np.pi, in units of pi/2
Pi == 2

TwoPi == 2 * Pi

\* ------------------------------------------------------------ 3-vectors
\* a vector whose components are NaN (the unit of a zero vector: 0/0)
NaNV == <<>>

Dirs == { <<1,0,0>>, <<-1,0,0>>, <<0,1,0>>, <<0,-1,0>>, <<0,0,1>>, <<0,0,-1>> }

VDot(a, b) ==
    IF a = NaNV \/ b = NaNV THEN NaN
    ELSE F(a[1]*b[1] + a[2]*b[2] + a[3]*b[3])

VCross(a, b) ==
    IF a = NaNV \/ b = NaNV THEN NaNV
    ELSE << a[2]*b[3] - a[3]*b[2], a[3]*b[1] - a[1]*b[3], a[1]*b[2] - a[2]*b[1] >>

VSub(a, b) ==
    IF a = NaNV \/ b = NaNV THEN NaNV
    ELSE << a[1]-b[1], a[2]-b[2], a[3]-b[3] >>

\* vector * scalar
VMul(a, f) ==
    IF a = NaNV \/ f.nan THEN NaNV
    ELSE << a[1]*f.v, a[2]*f.v, a[3]*f.v >>

VNeg(a) == IF a = NaNV THEN NaNV ELSE << -a[1], -a[2], -a[3] >>

Sgn(x) == IF x > 0 THEN 1 ELSE IF x < 0 THEN -1 ELSE 0

\* v.unit = v / |v|: NaN components for the zero vector.  The vectors of the
\* model lie along an axis, where the quotient is exact.
VUnit(a) ==
    CASE a = NaNV -> NaNV
      [] a # NaNV /\ a = <<0,0,0>> -> NaNV
      [] a # NaNV /\ a # <<0,0,0>>
         /\ Cardinality({i \in 1..3 : a[i] # 0}) = 1 -> << Sgn(a[1]), Sgn(a[2]), Sgn(a[3]) >>

\* R1.dot(R2) as the float the library returns: the exact value in fixed
\* point plus the rounding error e of the evaluation
FDot(a, b, e) ==
    LET d == VDot(a, b) IN IF d.nan THEN NaN ELSE F(d.v * Scale + e)

\* the arccos taken of the magnitude of the cosine
ArcCos_abs(c) ==
    IF c.nan THEN NaN
    ELSE IF c.v > Scale \/ c.v < -Scale THEN NaN
    ELSE IF 2 * c.v * c.v > Scale * Scale THEN F(0) ELSE F(Pi \div 2)

\* np.arccos of a fixed-point cosine c: NaN outside [-1, 1], else the angle
\* to the resolution of the model (cos(pi/4)^2 = 1/2 separates 0, pi/2, pi)
ArcCos(c) ==
    IF c.nan THEN NaN
    ELSE IF c.v > Scale \/ c.v < -Scale THEN NaN
    ELSE IF 2 * c.v * c.v > Scale * Scale
         THEN (IF c.v > 0 THEN F(0) ELSE F(Pi))
         ELSE F(Pi \div 2)

\* ----------------------------------------------------- optional, rational
None == <<>>

\* the phase shift Y = n/d with d > 0
YLt0(y) == y[1] < 0

YMul(a, b) == << a[1]*b[1], a[2]*b[2] >>

\* ------------------------------------------------------ ComputeAcopAngle
VecsKeys == {"P1", "R1", "H1", "C1", "Y1", "P2", "R2", "H2", "C2", "Y2"}

\* the sign without the sort by charge (the variant left in the comment of line 151)
_getSign_unsorted(P1, H1, P2, H2, C1, C2) == VDot(P1, VCross(H2, H1))

\* the sort made on the charge of leg 2
_getSign_byC2(P1, H1, P2, H2, C1, C2) ==
    LET Pm == Where(C2 < 0, P1, P2)
        Hm == Where(C2 < 0, H1, H2)
        Hp == Where(C2 < 0, H2, H1)
    IN  VDot(Pm, VCross(Hp, Hm))

\* the vectors of the negative leg first: Pm.dot(Hp.cross(Hm))
_getSign(P1, H1, P2, H2, C1, C2) ==
    LET Pm == Where(C1 < 0, P1, P2)
        Hm == Where(C1 < 0, H1, H2)
        Hp == Where(C1 < 0, H2, H1)
    IN  VDot(Pm, VCross(Hp, Hm))

\* Y of the pair taken from the first leg that has one
CombineY_first(Y1, Y2) == IF Y1 # None THEN Y1 ELSE Y2

\* Y of the pair kept only when both legs have one
CombineY_onlyBoth(Y1, Y2) ==
    IF Y1 # None /\ Y2 # None THEN YMul(Y1, Y2) ELSE None

\* Y of the pair: the product if both legs have one, else the one present
CombineY(Y1, Y2) ==
    IF Y1 # None
    THEN (IF Y2 # None THEN YMul(Y1, Y2) ELSE Y1)
    ELSE (IF Y2 # None THEN Y2 ELSE None)

\* the reflection applied for a positive sign instead of a negative one
SignStep_gt(sign, acop) == Where(FGt(sign, F(0)), FSub(F(TwoPi), acop), acop)

\* the reflection also applied for a sign of exactly 0
SignStep_le(sign, acop) ==
    Where(~sign.nan /\ sign.v <= 0, FSub(F(TwoPi), acop), acop)

\* acop = ak.where(sign < 0.0, 2.*np.pi - acop, acop)
SignStep(sign, acop) == Where(FLt(sign, F(0)), FSub(F(TwoPi), acop), acop)

\* the half turn also added for Y = 0
PhaseShift_le(Y, acop) ==
    IF Y # None THEN Where(Y[1] <= 0, FAdd(acop, F(Pi)), acop) ELSE acop

\* if Y is not None: acop = ak.where(Y < 0.0, acop + np.pi, acop)
PhaseShift(Y, acop) ==
    IF Y # None THEN Where(YLt0(Y), FAdd(acop, F(Pi)), acop) ELSE acop

\* the map without its first line
Wrap_noSubtract(acop) == Where(FLt(acop, F(0)), FAdd(acop, F(TwoPi)), acop)

\* a map into [0, pi]: half a turn subtracted above pi
Wrap_halfTurn(acop) ==
    LET a == Where(FGt(acop, F(Pi)), FSub(acop, F(Pi)), acop)
    IN  Where(FLt(a, F(0)), FAdd(a, F(TwoPi)), a)

\* the map into [0, 2pi]: subtract 2pi above 2pi, then add 2pi below 0
Wrap(acop) ==
    LET a == Where(FGt(acop, F(TwoPi)), FSub(acop, F(TwoPi)), acop)
    IN  Where(FLt(a, F(0)), FAdd(a, F(TwoPi)), a)

\* What one call of ComputeAcopAngle computes for one event; e is the rounding
\* error of R1.dot(R2).  raised names the exception, "" if none.
NoAngles ==
    [Y |-> None, arccos |-> NaN, sign |-> NaN, signed |-> NaN,
     shifted |-> NaN, acop |-> NaN]

\* lines 129-162: the lookups by name, then the four steps of the angle
AcopAngles(vecsdict, e) ==
    LET P1 == vecsdict["P1"]
        R1 == vecsdict["R1"]
        H1 == vecsdict["H1"]
        C1 == vecsdict["C1"]
        P2 == vecsdict["P2"]
        R2 == vecsdict["R2"]
        H2 == vecsdict["H2"]
        C2 == vecsdict["C2"]
        Y  == CombineY(vecsdict["Y1"], vecsdict["Y2"])
        acop0 == ArcCos(FDot(R1, R2, e))
        sign  == _getSign(P1, H1, P2, H2, C1, C2)
        acop1 == SignStep(sign, acop0)
        acop2 == PhaseShift(Y, acop1)
    IN  [Y |-> Y, arccos |-> acop0, sign |-> sign, signed |-> acop1,
         shifted |-> acop2, acop |-> Wrap(acop2)]

\* the call without the assertion of line 128: only the lookups fail
ComputeAcopAngle_noAssert(vecsdict, e) ==
    IF ~(VecsKeys \subseteq DOMAIN vecsdict)
    THEN [raised |-> "KeyError", r |-> NoAngles]
    ELSE [raised |-> "", r |-> AcopAngles(vecsdict, e)]

\* line 128 asserts len(vecsdict) == 10; a lookup of a name the dictionary
\* does not hold is a KeyError
ComputeAcopAngle(vecsdict, e) ==
    IF Cardinality(DOMAIN vecsdict) # 10
    THEN [raised |-> "AssertionError", r |-> NoAngles]
    ELSE IF ~(VecsKeys \subseteq DOMAIN vecsdict)
    THEN [raised |-> "KeyError", r |-> NoAngles]
    ELSE [raised |-> "", r |-> AcopAngles(vecsdict, e)]

\* ------------------------------------------------------------ raw vectors
\* A raw vector of the event, by name: the array id, the slice taken of it
\* ("all", or "0:1", "1:2", "2:3" for [:, i:i+1]) and, for a decay candidate,
\* its .charge (0 for the pion arrays, whose charge the code never reads),
\* and n, the number of events the array holds.
Raw(id, c) == [id |-> id, slice |-> "all", charge |-> c, n |-> NEvents]

\* the same array with one event more
Longer(v) == [v EXCEPT !.n = v.n + 1]

Slice(v, s) == [v EXCEPT !.slice = s]

\* Python's None where a vector is expected
NoneVec == [id |-> "None", slice |-> "all", charge |-> 0, n |-> 0]

Methods == {"DP", "PV", "IP", "XX"}

Modes == {"e", "mu", "pi", "rho", "a1"}

\* the rho mass 0.77526 GeV, in units of 1e-5 GeV
RhoMass == 77526

Masses == {RhoMass, RhoMass + 1}

Abs(x) == IF x < 0 THEN -x ELSE x

\* the opposite-sign pion returned as the selected one
_get_pi_a1_DP_os(p4_pi, Minv) == Slice(p4_pi, "0:1")

\* the differences to the rho mass compared with their signs
_get_pi_a1_DP_noAbs(p4_pi, Minv) ==
    Where((RhoMass - Minv[1]) < (RhoMass - Minv[2]),
          Slice(p4_pi, "1:2"), Slice(p4_pi, "2:3"))

\* Minv = <<mass of pion[0]+pion[1], mass of pion[0]+pion[2]>>, from the library
_get_pi_a1_DP(p4_pi, Minv) ==
    Where(Abs(RhoMass - Minv[1]) < Abs(RhoMass - Minv[2]),
          Slice(p4_pi, "1:2"), Slice(p4_pi, "2:3"))

\* _prepareVecs with the DP branch falling through like the IP branch does
_prepareVecs_DPsilent(hcand, hcand_pi, hcand_pi0, leg_method, leg_mode, Minv) ==
    LET ret(P, R) == [raised |-> "", P |-> P, R |-> R, C |-> hcand.charge]
        raise     == [raised |-> "RuntimeError", P |-> NoneVec, R |-> NoneVec, C |-> 0]
    IN  CASE leg_method = "DP" ->
               (CASE leg_mode = "rho" -> ret(hcand_pi, hcand_pi0)
                  [] leg_mode = "a1"  -> ret(Slice(hcand_pi, "1:2"), Slice(hcand_pi, "0:1"))
                  [] OTHER            -> ret(NoneVec, NoneVec))
          [] leg_method = "PV" -> ret(hcand, hcand_pi)
          [] leg_method = "IP" ->
               (CASE leg_mode \in {"e", "mu"} -> ret(hcand, hcand)
                  [] leg_mode = "pi"          -> ret(hcand_pi, hcand)
                  [] OTHER                    -> ret(NoneVec, NoneVec))
          [] OTHER -> raise

\* ------------------------------------------------------------ _prepareVecs
_prepareVecs(hcand, hcand_pi, hcand_pi0, leg_method, leg_mode, Minv) ==
    LET ret(P, R) == [raised |-> "", P |-> P, R |-> R, C |-> hcand.charge]
        raise     == [raised |-> "RuntimeError", P |-> NoneVec, R |-> NoneVec, C |-> 0]
    IN  CASE leg_method = "DP" ->
               (CASE leg_mode = "rho" -> ret(hcand_pi, hcand_pi0)
                  [] leg_mode = "a1"  -> ret(_get_pi_a1_DP(hcand_pi, Minv),
                                             Slice(hcand_pi, "0:1"))
                  [] OTHER            -> raise)
          [] leg_method = "PV" -> ret(hcand, hcand_pi)
          [] leg_method = "IP" ->
               (CASE leg_mode \in {"e", "mu"} -> ret(hcand, hcand)
                  [] leg_mode = "pi"          -> ret(hcand_pi, hcand)
                  [] OTHER                    -> ret(NoneVec, NoneVec))
          [] OTHER -> raise

\* ---------------------------------------------------------------- _getBoost
\* (a + b).boostvec of two raw vectors: a TypeError when an operand is None,
\* a ValueError of the array library when their batch lengths differ
VecAdd(a, b) ==
    IF a = NoneVec \/ b = NoneVec
    THEN [raised |-> "TypeError", boostvec |-> <<>>]
    ELSE IF a.n # b.n
    THEN [raised |-> "ValueError", boostvec |-> <<>>]
    ELSE [raised |-> "", boostvec |-> <<a, b>>]

\* the pion frame taken as soon as one PV leg is a pi
_getBoost_anyPi(P1, R1, P2, R2, leg1_method, leg2_method, leg1_mode, leg2_mode) ==
    IF leg1_method = "PV" /\ leg2_method = "PV"
    THEN (IF leg1_mode = "pi" \/ leg2_mode = "pi"
          THEN VecAdd(R1, R2)
          ELSE VecAdd(P1, P2))
    ELSE VecAdd(P1, P2)

_getBoost(P1, R1, P2, R2, leg1_method, leg2_method, leg1_mode, leg2_mode) ==
    IF leg1_method = "PV" /\ leg2_method = "PV"
    THEN (IF leg1_mode = "pi" /\ leg2_mode = "pi"
          THEN VecAdd(R1, R2)
          ELSE VecAdd(P1, P2))
    ELSE VecAdd(P1, P2)

\* ------------------------------------------------------------ _reStructureVecs
\* lib: what the library returns for this leg's vectors boosted by -boostv:
\*   d1 the unit direction of V1, d2 the unit direction of the second object
\*   (V2 for DP; the impact-parameter vector of V2 for IP; the polarimetric
\*   construction of the mode for PV), e1 and e2 the energies of V1 and V2.
NoVecs == [raised |-> "RuntimeError", P |-> NaNV, R |-> NaNV, H |-> NaNV, Y |-> None]

\* the array library refusing to combine arrays of different batch lengths
BroadcastError ==
    [raised |-> "ValueError", P |-> NaNV, R |-> NaNV, H |-> NaNV, Y |-> None]

\* V.boost(boostv.negative()) can be evaluated: V holds as many events as the
\* vectors boostv was taken of
Aligned(boostv, V) == \A i \in DOMAIN boostv : V.n = boostv[i].n

\* the projection with its operands exchanged: (a - b*(a.dot(b))).unit
Transverse_swapped(a, b) == VUnit(VSub(a, VMul(b, VDot(a, b))))

\* (b - a*(a.dot(b))).unit
Transverse(a, b) == VUnit(VSub(b, VMul(a, VDot(a, b))))

\* _pv with a rho mode that never touches the pi0
_pv_pi0Unread(boostv, tau, pi, pi0, leg_mode, lib) ==
    LET out(pv) ==
          LET P == lib.d1
              H == VUnit(pv)
              R == VUnit(VCross(H, P))
          IN  [raised |-> "", P |-> P, R |-> R, H |-> H, Y |-> None]
    IN  IF ~Aligned(boostv, tau) THEN BroadcastError
        ELSE CASE leg_mode \in {"pi", "rho"} ->
                    IF Aligned(boostv, pi) THEN out(lib.d2) ELSE BroadcastError
               [] leg_mode = "a1"  ->
                    IF Aligned(boostv, pi) THEN out(VNeg(lib.d2)) ELSE BroadcastError
               [] OTHER            -> NoVecs

_pv(boostv, tau, pi, pi0, leg_mode, lib) ==
    LET out(pv) ==
          LET P == lib.d1
              H == VUnit(pv)
              R == VUnit(VCross(H, P))
          IN  [raised |-> "", P |-> P, R |-> R, H |-> H, Y |-> None]
    IN  IF ~Aligned(boostv, tau) THEN BroadcastError
        ELSE CASE leg_mode = "pi"  ->
                    IF Aligned(boostv, pi) THEN out(lib.d2) ELSE BroadcastError
               [] leg_mode = "rho" ->
                    IF Aligned(boostv, pi) /\ Aligned(boostv, pi0)
                    THEN out(lib.d2) ELSE BroadcastError
               [] leg_mode = "a1"  ->
                    IF Aligned(boostv, pi) THEN out(VNeg(lib.d2)) ELSE BroadcastError
               [] OTHER            -> NoVecs

\* the IP legs sent through the DP branch, which computes a Y
_reStructureVecs_IPasDP(boostv, V1, V2, V3, leg_method, leg_mode, lib) ==
    CASE leg_method \in {"DP", "IP"} ->
           LET pi0_ZMF_unit_T == Transverse(lib.d1, lib.d2)
           IN  IF ~(Aligned(boostv, V1) /\ Aligned(boostv, V2)) THEN BroadcastError
               ELSE
               [raised |-> "", P |-> lib.d1, R |-> pi0_ZMF_unit_T,
                H |-> pi0_ZMF_unit_T, Y |-> <<lib.e1 - lib.e2, lib.e1 + lib.e2>>]
      [] leg_method = "PV" -> _pv(boostv, V1, V2, V3, leg_mode, lib)
      [] OTHER -> NoVecs

_reStructureVecs(boostv, V1, V2, V3, leg_method, leg_mode, lib) ==
    CASE leg_method = "DP" ->
           LET pi_ZMF_unit    == lib.d1
               pi0_ZMF_unit   == lib.d2
               pi0_ZMF_unit_T == Transverse(pi_ZMF_unit, pi0_ZMF_unit)
           IN  IF ~(Aligned(boostv, V1) /\ Aligned(boostv, V2)) THEN BroadcastError
               ELSE
               [raised |-> "", P |-> pi_ZMF_unit, R |-> pi0_ZMF_unit_T,
                H |-> pi0_ZMF_unit_T, Y |-> <<lib.e1 - lib.e2, lib.e1 + lib.e2>>]
      [] leg_method = "PV" -> _pv(boostv, V1, V2, V3, leg_mode, lib)
      [] leg_method = "IP" ->
           LET P_ZMF_unit   == lib.d1
               R_ZMF_unit   == lib.d2
               R_ZMF_T_unit == Transverse(P_ZMF_unit, R_ZMF_unit)
           IN  IF ~(Aligned(boostv, V1) /\ Aligned(boostv, V2)) THEN BroadcastError
               ELSE
               [raised |-> "", P |-> P_ZMF_unit, R |-> R_ZMF_T_unit,
                H |-> R_ZMF_T_unit, Y |-> None]
      [] OTHER -> NoVecs

\* ------------------------------------------------------------------ state
VARIABLES
    p4hcandinfodict,        \* the six raw vectors of the event, by key
    method_leg1, method_leg2, mode_leg1, mode_leg2,
    pc,                     \* the statement GetPhiCP is at
    prep1, prep2,           \* (_P1, _R1, _C1) and (_P2, _R2, _C2)
    boostv,                 \* the boost vector of line 97
    rsargs,                 \* the arguments of each _reStructureVecs call made
    rs1, rs2,               \* (P1, R1, H1, Y1) and (P2, R2, H2, Y2)
    phicp_input_vec_dict,   \* the dictionary handed to ComputeAcopAngle
    fperr,                  \* rounding error of R1.dot(R2) in this evaluation
    angles,                 \* the values ComputeAcopAngle went through
    phicp,                  \* what GetPhiCP returned
    raised,                 \* the exception that left GetPhiCP, "" if none
    calls,                  \* the stages entered so far, in order
    nswap, first,           \* charge-label exchanges made, and the first result
    rslib,                  \* the library results of a direct call of a helper
    hists,                  \* hist_hooks.py: the mapping process -> histogram
    hists_given,            \* that mapping as the hook was handed it
    config,                 \* what the hook reads of the configuration
    hook_pc,                \* the statement the hook is at
    data_hist_tmp,          \* the pseudo-data histogram of closure_test
    data_qcd_hist           \* the histogram closure_test uses as data

vars == << p4hcandinfodict, method_leg1, method_leg2, mode_leg1, mode_leg2, pc,
           prep1, prep2, boostv, rsargs, rs1, rs2, phicp_input_vec_dict, fperr,
           angles, phicp, raised, calls, nswap, first, rslib,
           hists, hists_given, config, hook_pc, data_hist_tmp,
           data_qcd_hist >>

\* the variables of PhiCP_Estimator.py and those of hist_hooks.py
phicpvars == << p4hcandinfodict, method_leg1, method_leg2, mode_leg1, mode_leg2,
                pc, prep1, prep2, boostv, rsargs, rs1, rs2, phicp_input_vec_dict,
                fperr, angles, phicp, raised, calls, nswap, first, rslib >>

hookvars == << hists, hists_given, config, hook_pc, data_hist_tmp, data_qcd_hist >>

\* no histogram hook is running
HookIdle ==
    /\ hists = <<>> /\ hists_given = <<>> /\ config = <<>>
    /\ hook_pc = [at |-> "idle", todo |-> {}]
    /\ data_hist_tmp = <<>> /\ data_qcd_hist = <<>>

\* the arguments of GetPhiCP
settings == << method_leg1, method_leg2, mode_leg1, mode_leg2 >>

inputs == << p4hcandinfodict, method_leg1, method_leg2, mode_leg1, mode_leg2 >>

Charges == {-1, 1}

FpErrs == (-MaxErr) .. MaxErr

\* (energy of the pion, energy of the pi0) in the frame
EnergyPairs == { ee \in (1 .. MaxE) \X (1 .. MaxE) : ee[1] + ee[2] <= MaxE }

NoPrep == [raised |-> "", P |-> NoneVec, R |-> NoneVec, C |-> 0]

NoRs == [raised |-> "", P |-> NaNV, R |-> NaNV, H |-> NaNV, Y |-> None]

NoPhiCP == [nan |-> TRUE, v |-> 0, dtype |-> "none"]

\* ak.values_astype(x, np.float32): the value to single precision, which at
\* the resolution of the model is the same multiple of pi/2
values_astype_float32(a) == [nan |-> a.nan, v |-> a.v, dtype |-> "float32"]

\* the dictionary PrepareVecsForPhiCP returns
VecsDict(r1, C1, r2, C2) ==
    [P1 |-> r1.P, R1 |-> r1.R, H1 |-> r1.H, C1 |-> C1,
     P2 |-> r2.P, R2 |-> r2.R, H2 |-> r2.H, C2 |-> C2,
     Y1 |-> r1.Y, Y2 |-> r2.Y]

\* what the library can return for one leg in the runs of GetPhiCP
LibsOfRun ==
    { [d1 |-> a, d2 |-> b, e1 |-> ee[1], e2 |-> ee[2]] :
        a \in {<<1,0,0>>, <<0,0,1>>}, b \in {<<1,0,0>>, <<0,1,0>>, <<-1,0,0>>},
        ee \in EnergyPairs }

\* the boost computed after the first leg is restructured
StageAfter_lateBoost(s) ==
    CASE s = "prepareVecs1"     -> "prepareVecs2"
      [] s = "prepareVecs2"     -> "reStructureVecs1"
      [] s = "reStructureVecs1" -> "getBoost"
      [] s = "getBoost"         -> "reStructureVecs2"
      [] s = "reStructureVecs2" -> "ComputeAcopAngle"
      [] s = "ComputeAcopAngle" -> "returned"

\* the order of the statements of GetPhiCP and PrepareVecsForPhiCP
StageAfter(s) ==
    CASE s = "prepareVecs1"     -> "prepareVecs2"
      [] s = "prepareVecs2"     -> "getBoost"
      [] s = "getBoost"         -> "reStructureVecs1"
      [] s = "reStructureVecs1" -> "reStructureVecs2"
      [] s = "reStructureVecs2" -> "ComputeAcopAngle"
      [] s = "ComputeAcopAngle" -> "returned"

\* leg 2 boosted with a frame of its own vectors
ReStructureArgs_ownFrame(leg) ==
    IF leg = 1
    THEN << boostv, prep1.P, prep1.R, p4hcandinfodict["p4h1pi0"], method_leg1, mode_leg1 >>
    ELSE << <<prep2.P, prep2.R>>, prep2.P, prep2.R, p4hcandinfodict["p4h2pi0"],
            method_leg2, mode_leg2 >>

\* the arguments PrepareVecsForPhiCP passes to _reStructureVecs for a leg
ReStructureArgs(leg) ==
    IF leg = 1
    THEN << boostv, prep1.P, prep1.R, p4hcandinfodict["p4h1pi0"], method_leg1, mode_leg1 >>
    ELSE << boostv, prep2.P, prep2.R, p4hcandinfodict["p4h2pi0"], method_leg2, mode_leg2 >>

\* the six raw vectors of a call, the one named odd holding one event more
RawVecs(c1, c2, odd) ==
    LET d == [p4h1 |-> Raw("p4h1", c1), p4h1pi |-> Raw("p4h1pi", 0),
              p4h1pi0 |-> Raw("p4h1pi0", 0),
              p4h2 |-> Raw("p4h2", c2), p4h2pi |-> Raw("p4h2pi", 0),
              p4h2pi0 |-> Raw("p4h2pi0", 0)]
    IN  [k \in DOMAIN d |-> IF k = odd THEN Longer(d[k]) ELSE d[k]]

\* the vector out of line in the calls made: none, the pi0 of leg 1, the pions
\* of leg 2
OddKeys == {"none", "p4h1pi0", "p4h2pi"}

\* the pions of leg 1 boosted in place by the first _reStructureVecs call
InputsAfter_boostInPlace(stage, d) ==
    IF stage = "reStructureVecs1"
    THEN [d EXCEPT !["p4h1pi"] = [@ EXCEPT !.id = "p4h1pi boosted"]]
    ELSE d

\* The caller's dictionary after a stage.  No stage assigns into it or into
\* its arrays: boost, pvec, unit, the slices and ak.where build new arrays,
\* and lines 397-398 of _pv rebind the local names pi and pi0.
InputsAfter(stage, d) == d

Init ==
    /\ \E c1, c2 \in Charges, odd \in OddKeys :
         p4hcandinfodict = RawVecs(c1, c2, odd)
    /\ method_leg1 \in Methods /\ method_leg2 \in Methods
    /\ mode_leg1 \in Modes /\ mode_leg2 \in Modes
    /\ pc = "prepareVecs1"
    /\ prep1 = NoPrep /\ prep2 = NoPrep
    /\ boostv = <<>>
    /\ rsargs = <<>>
    /\ rs1 = NoRs /\ rs2 = NoRs
    /\ phicp_input_vec_dict = <<>>
    /\ fperr = 0
    /\ angles = NoAngles
    /\ phicp = NoPhiCP
    /\ raised = ""
    /\ calls = <<>>
    /\ nswap = 0 /\ first = NoAngles
    /\ rslib = <<>>
    /\ HookIdle

\* the exception caught and the next statement run
Raise_swallowed(e) == pc' = StageAfter(pc) /\ raised' = e

\* an exception leaves GetPhiCP: nothing is returned
Raise(e) == pc' = "raised" /\ raised' = e

\* line 93
PrepareLeg1 ==
    /\ pc = "prepareVecs1"
    /\ calls' = Append(calls, pc)
    /\ \E Minv \in Masses \X Masses :
         LET r == _prepareVecs(p4hcandinfodict["p4h1"], p4hcandinfodict["p4h1pi"],
                               p4hcandinfodict["p4h1pi0"], method_leg1, mode_leg1, Minv)
         IN  IF r.raised # ""
             THEN Raise(r.raised) /\ UNCHANGED prep1
             ELSE prep1' = r /\ pc' = StageAfter(pc) /\ UNCHANGED raised
    /\ p4hcandinfodict' = InputsAfter(pc, p4hcandinfodict)
    /\ UNCHANGED << settings, rslib, prep2, boostv, rsargs, rs1, rs2, phicp_input_vec_dict,
                    fperr, angles, phicp, nswap, first >>
    /\ UNCHANGED hookvars

\* line 94
PrepareLeg2 ==
    /\ pc = "prepareVecs2"
    /\ calls' = Append(calls, pc)
    /\ \E Minv \in Masses \X Masses :
         LET r == _prepareVecs(p4hcandinfodict["p4h2"], p4hcandinfodict["p4h2pi"],
                               p4hcandinfodict["p4h2pi0"], method_leg2, mode_leg2, Minv)
         IN  IF r.raised # ""
             THEN Raise(r.raised) /\ UNCHANGED prep2
             ELSE prep2' = r /\ pc' = StageAfter(pc) /\ UNCHANGED raised
    /\ p4hcandinfodict' = InputsAfter(pc, p4hcandinfodict)
    /\ UNCHANGED << settings, rslib, prep1, boostv, rsargs, rs1, rs2, phicp_input_vec_dict,
                    fperr, angles, phicp, nswap, first >>
    /\ UNCHANGED hookvars

\* lines 97-102
GetBoost ==
    /\ pc = "getBoost"
    /\ calls' = Append(calls, pc)
    /\ LET b == _getBoost(prep1.P, prep1.R, prep2.P, prep2.R,
                          method_leg1, method_leg2, mode_leg1, mode_leg2)
       IN  IF b.raised # ""
           THEN Raise(b.raised) /\ UNCHANGED boostv
           ELSE boostv' = b.boostvec /\ pc' = StageAfter(pc) /\ UNCHANGED raised
    /\ p4hcandinfodict' = InputsAfter(pc, p4hcandinfodict)
    /\ UNCHANGED << settings, rslib, prep1, prep2, rsargs, rs1, rs2, phicp_input_vec_dict,
                    fperr, angles, phicp, nswap, first >>
    /\ UNCHANGED hookvars

\* line 104
ReStructureLeg1 ==
    /\ pc = "reStructureVecs1"
    /\ calls' = Append(calls, pc)
    /\ LET a == ReStructureArgs(1) IN
       /\ rsargs' = Append(rsargs, a)
       /\ \E lib \in LibsOfRun :
            LET r == _reStructureVecs(a[1], a[2], a[3], a[4], a[5], a[6], lib)
            IN  IF r.raised # ""
                THEN Raise(r.raised) /\ UNCHANGED rs1
                ELSE rs1' = r /\ pc' = StageAfter(pc) /\ UNCHANGED raised
    /\ p4hcandinfodict' = InputsAfter(pc, p4hcandinfodict)
    /\ UNCHANGED << settings, rslib, prep1, prep2, boostv, rs2, phicp_input_vec_dict,
                    fperr, angles, phicp, nswap, first >>
    /\ UNCHANGED hookvars

\* lines 105-109
ReStructureLeg2 ==
    /\ pc = "reStructureVecs2"
    /\ calls' = Append(calls, pc)
    /\ LET a == ReStructureArgs(2) IN
       /\ rsargs' = Append(rsargs, a)
       /\ \E lib \in LibsOfRun :
            LET r == _reStructureVecs(a[1], a[2], a[3], a[4], a[5], a[6], lib)
            IN  IF r.raised # ""
                THEN Raise(r.raised) /\ UNCHANGED << rs2, phicp_input_vec_dict >>
                ELSE /\ rs2' = r
                     /\ phicp_input_vec_dict' = VecsDict(rs1, prep1.C, r, prep2.C)
                     /\ pc' = StageAfter(pc)
                     /\ UNCHANGED raised
    /\ p4hcandinfodict' = InputsAfter(pc, p4hcandinfodict)
    /\ UNCHANGED << settings, rslib, prep1, prep2, boostv, rs1, fperr, angles, phicp,
                    nswap, first >>
    /\ UNCHANGED hookvars

\* lines 51-55
ComputeAngle ==
    /\ pc = "ComputeAcopAngle"
    /\ calls' = Append(calls, pc)
    /\ \E e \in FpErrs :
         LET c == ComputeAcopAngle(phicp_input_vec_dict, e)
         IN  /\ fperr' = e
             /\ IF c.raised # ""
                THEN Raise(c.raised) /\ UNCHANGED << angles, phicp >>
                ELSE /\ angles' = c.r
                     /\ phicp' = values_astype_float32(c.r.acop)
                     /\ pc' = StageAfter(pc)
                     /\ UNCHANGED raised
    /\ p4hcandinfodict' = InputsAfter(pc, p4hcandinfodict)
    /\ UNCHANGED << settings, rslib, prep1, prep2, boostv, rsargs, rs1, rs2,
                    phicp_input_vec_dict, nswap, first >>
    /\ UNCHANGED hookvars

Next ==
    \/ PrepareLeg1
    \/ PrepareLeg2
    \/ GetBoost
    \/ ReStructureLeg1
    \/ ReStructureLeg2
    \/ ComputeAngle

Spec == Init /\ [][Next]_vars

\* ------------------------------------------- ComputeAcopAngle on its own
\* ComputeAcopAngle called on every dictionary _reStructureVecs can fill for
\* an allowed pair of legs, then called again with the charge labels C1 and
\* C2 exchanged and the vectors held fixed.
AllowedPairs ==
    { <<"DP", "rho">>, <<"DP", "a1">>, <<"PV", "pi">>, <<"PV", "rho">>,
      <<"PV", "a1">>, <<"IP", "e">>, <<"IP", "mu">>, <<"IP", "pi">> }

LibsOfCall ==
    { [d1 |-> a, d2 |-> b, e1 |-> ee[1], e2 |-> ee[2]] :
        a \in {<<1,0,0>>, <<-1,0,0>>, <<0,0,1>>}, b \in Dirs, ee \in EnergyPairs }

LegVecs ==
    { _reStructureVecs(<<NoneVec, NoneVec>>, NoneVec, NoneVec, NoneVec,
                       mm[1], mm[2], l) :
        mm \in AllowedPairs, l \in LibsOfCall }

SwapLabels(d) == [d EXCEPT !["C1"] = d["C2"], !["C2"] = d["C1"]]

AcopInit ==
    /\ p4hcandinfodict = <<>>
    /\ method_leg1 = "" /\ method_leg2 = "" /\ mode_leg1 = "" /\ mode_leg2 = ""
    /\ pc = "call"
    /\ prep1 = NoPrep /\ prep2 = NoPrep
    /\ boostv = <<>>
    /\ rsargs = <<>>
    /\ rs1 \in LegVecs /\ rs2 \in LegVecs
    /\ \E C1, C2 \in Charges : phicp_input_vec_dict = VecsDict(rs1, C1, rs2, C2)
    /\ fperr = 0
    /\ angles = NoAngles
    /\ phicp = NoPhiCP
    /\ raised = ""
    /\ calls = <<>>
    /\ nswap = 0 /\ first = NoAngles
    /\ rslib = <<>>
    /\ HookIdle

AcopCall ==
    /\ pc = "call"
    /\ \E e \in FpErrs :
         LET c == ComputeAcopAngle(phicp_input_vec_dict, e)
         IN  /\ fperr' = e
             /\ angles' = c.r
             /\ first' = c.r
             /\ raised' = c.raised
             /\ pc' = IF c.raised # "" THEN "raised" ELSE "called"
    /\ UNCHANGED << inputs, rslib, prep1, prep2, boostv, rsargs, rs1, rs2,
                    phicp_input_vec_dict, phicp, calls, nswap >>
    /\ UNCHANGED hookvars

AcopSwapCall ==
    /\ pc = "called"
    /\ nswap < 2
    /\ phicp_input_vec_dict["C1"] # phicp_input_vec_dict["C2"]
    /\ phicp_input_vec_dict' = SwapLabels(phicp_input_vec_dict)
    /\ LET c == ComputeAcopAngle(phicp_input_vec_dict', fperr)
       IN  /\ angles' = c.r
           /\ raised' = c.raised
           /\ pc' = IF c.raised # "" THEN "raised" ELSE "called"
    /\ nswap' = nswap + 1
    /\ UNCHANGED << inputs, rslib, prep1, prep2, boostv, rsargs, rs1, rs2, fperr,
                    phicp, calls, first >>
    /\ UNCHANGED hookvars

AcopNext ==
    \/ AcopCall
    \/ AcopSwapCall

SpecAcop == AcopInit /\ [][AcopNext]_vars

\* --------------------------------- ComputeAcopAngle with the legs exchanged
\* ComputeAcopAngle called on a dictionary, then on the dictionary with the
\* entries of leg 1 and leg 2 exchanged: (P1, R1, H1, C1, Y1) with
\* (P2, R2, H2, C2, Y2).  The dot product multiplies component by component,
\* so R2.dot(R1) rounds as R1.dot(R2) did.
ExchangeLegs(d) ==
    [k \in DOMAIN d |->
        d[SubSeq(k, 1, 1) \o (IF SubSeq(k, 2, 2) = "1" THEN "2" ELSE "1")]]

AcopExchangeCall ==
    /\ pc = "called"
    /\ calls = <<>>
    /\ calls' = << "exchange" >>
    /\ phicp_input_vec_dict' = ExchangeLegs(phicp_input_vec_dict)
    /\ LET c == ComputeAcopAngle(phicp_input_vec_dict', fperr)
       IN  /\ angles' = c.r
           /\ raised' = c.raised
           /\ pc' = IF c.raised # "" THEN "raised" ELSE "called"
    /\ UNCHANGED << inputs, rslib, prep1, prep2, boostv, rsargs, rs1, rs2, fperr,
                    phicp, nswap, first >>
    /\ UNCHANGED hookvars

ExchNext ==
    \/ AcopCall
    \/ AcopExchangeCall

SpecExch == AcopInit /\ [][ExchNext]_vars

\* ------------------------------- ComputeAcopAngle on any dictionary
\* ComputeAcopAngle called on a dictionary with the ten names, with one of
\* them missing, with one of them under another name, or with one name more.
Without(d, k) == [x \in DOMAIN d \ {k} |-> d[x]]

Renamed(d, k, k2) ==
    [x \in (DOMAIN d \ {k}) \cup {k2} |-> IF x = k2 THEN d[k] ELSE d[x]]

WithExtra(d, k2) == [x \in DOMAIN d \cup {k2} |-> IF x = k2 THEN None ELSE d[x]]

DictsLike(d) ==
    {d} \cup { Without(d, k) : k \in VecsKeys }
        \cup { Renamed(d, k, "_" \o k) : k \in VecsKeys }
        \cup { WithExtra(d, "Y") }

DictLegs ==
    { _reStructureVecs(<<NoneVec, NoneVec>>, NoneVec, NoneVec, NoneVec,
                       mm[1], mm[2], l) :
        mm \in { <<"DP", "rho">>, <<"PV", "pi">> }, l \in LibsOfRun }

DictInit ==
    /\ p4hcandinfodict = <<>>
    /\ method_leg1 = "" /\ method_leg2 = "" /\ mode_leg1 = "" /\ mode_leg2 = ""
    /\ pc = "call"
    /\ prep1 = NoPrep /\ prep2 = NoPrep
    /\ boostv = <<>>
    /\ rsargs = <<>>
    /\ rs1 \in DictLegs /\ rs2 \in DictLegs
    /\ \E C1 \in Charges : phicp_input_vec_dict \in DictsLike(VecsDict(rs1, C1, rs2, -C1))
    /\ fperr = 0
    /\ angles = NoAngles
    /\ phicp = NoPhiCP
    /\ raised = ""
    /\ calls = <<>>
    /\ nswap = 0 /\ first = NoAngles
    /\ rslib = <<>>
    /\ HookIdle

DictNext == AcopCall

SpecDict == DictInit /\ [][DictNext]_vars

\* ------------------------------------------- _reStructureVecs on its own
\* _reStructureVecs called once on aligned vectors, for every method, every
\* mode and every pair of unit directions and energies the library can
\* return for the boosted vectors.
LibsOfLeg ==
    { [d1 |-> a, d2 |-> b, e1 |-> ee[1], e2 |-> ee[2]] :
        a \in Dirs, b \in Dirs, ee \in EnergyPairs }

RsInit ==
    /\ p4hcandinfodict = <<>>
    /\ method_leg1 \in Methods /\ mode_leg1 \in Modes
    /\ method_leg2 = "" /\ mode_leg2 = ""
    /\ pc = "call"
    /\ prep1 = NoPrep /\ prep2 = NoPrep
    /\ boostv = << Raw("V1", 1), Raw("V2", 0) >>
    /\ rsargs = <<>>
    /\ rs1 = NoRs /\ rs2 = NoRs
    /\ phicp_input_vec_dict = <<>>
    /\ fperr = 0
    /\ angles = NoAngles
    /\ phicp = NoPhiCP
    /\ raised = ""
    /\ calls = <<>>
    /\ nswap = 0 /\ first = NoAngles
    /\ rslib \in LibsOfLeg
    /\ HookIdle

RsCall ==
    /\ pc = "call"
    /\ LET a == << boostv, Raw("V1", 1), Raw("V2", 0), Raw("V3", 0),
                   method_leg1, mode_leg1 >>
           r == _reStructureVecs(a[1], a[2], a[3], a[4], a[5], a[6], rslib)
       IN  /\ rsargs' = << a >>
           /\ raised' = r.raised
           /\ IF r.raised # ""
              THEN pc' = "raised" /\ UNCHANGED rs1
              ELSE pc' = "called" /\ rs1' = r
    /\ UNCHANGED << inputs, rslib, prep1, prep2, boostv, rs2,
                    phicp_input_vec_dict, fperr, angles, phicp, calls, nswap,
                    first >>
    /\ UNCHANGED hookvars

RsNext == RsCall

SpecRs == RsInit /\ [][RsNext]_vars

\* ------------------------------------------------ _prepareVecs on its own
\* _prepareVecs called once on the raw vectors of leg 1, for every method and
\* mode and every pair of pion-pair masses around the rho mass.
MassesNear == (RhoMass - MassSpread) .. (RhoMass + MassSpread)

PvInit ==
    /\ \E c1, c2 \in Charges : p4hcandinfodict = RawVecs(c1, c2, "none")
    /\ method_leg1 \in Methods /\ mode_leg1 \in Modes
    /\ method_leg2 = "" /\ mode_leg2 = ""
    /\ pc = "call"
    /\ prep1 = NoPrep /\ prep2 = NoPrep
    /\ boostv = <<>>
    /\ rsargs = <<>>
    /\ rs1 = NoRs /\ rs2 = NoRs
    /\ phicp_input_vec_dict = <<>>
    /\ fperr = 0
    /\ angles = NoAngles
    /\ phicp = NoPhiCP
    /\ raised = ""
    /\ calls = <<>>
    /\ nswap = 0 /\ first = NoAngles
    /\ \E m1, m2 \in MassesNear : rslib = [Minv |-> << m1, m2 >>]
    /\ HookIdle

PvCall ==
    /\ pc = "call"
    /\ LET r == _prepareVecs(p4hcandinfodict["p4h1"], p4hcandinfodict["p4h1pi"],
                             p4hcandinfodict["p4h1pi0"], method_leg1, mode_leg1,
                             rslib.Minv)
       IN  /\ raised' = r.raised
           /\ IF r.raised # ""
              THEN pc' = "raised" /\ UNCHANGED prep1
              ELSE pc' = "called" /\ prep1' = r
    /\ UNCHANGED << inputs, rslib, prep2, boostv, rsargs, rs1, rs2,
                    phicp_input_vec_dict, fperr, angles, phicp, calls, nswap,
                    first >>
    /\ UNCHANGED hookvars

PvNext == PvCall

SpecPv == PvInit /\ [][PvNext]_vars

\* ------------------------------------------- hist_hooks.py: bin contents
\* A bin value is a pair n/d with d >= 0.  d = 0 is what a float division
\* by zero leaves behind: +inf (n > 0), -inf (n < 0) or nan (n = 0).
Rat(n) == << n, 1 >>

RatNorm(r) == IF r[2] < 0 THEN << -r[1], -r[2] >> ELSE r

RatAdd(a, b) == << a[1] * b[2] + b[1] * a[2], a[2] * b[2] >>

RatSub(a, b) == << a[1] * b[2] - b[1] * a[2], a[2] * b[2] >>

RatMul(a, b) == << a[1] * b[1], a[2] * b[2] >>

RatDiv(a, b) == RatNorm(<< a[1] * b[2], a[2] * b[1] >>)

\* r <= 0 as numpy compares: true for -inf, false for nan and +inf
RatLe0(r) == r[1] < 0 \/ (r[1] = 0 /\ r[2] # 0)

RatGt0(r) == r[1] > 0

\* np.isfinite(r)
RatFinite(r) == r[2] # 0

\* largest bin content of an input histogram
MaxCount == 3

\* the value written into a bin that has no usable estimate
FillValue == << 1, 100000 >>

\* ---------------------------------------------- hist_hooks.py: histograms
\* The axes are category -> shift -> variable.  A bin holds its value and
\* its variance; of a variance the model keeps which quantity it is: "0",
\* the sum of squared weights of a filled histogram, or the squared MC
\* uncertainty of the estimate.
Shifts == { "nominal", "tau_up" }

VarBins == { "low", "high" }

Bin(value, variance) == [value |-> value, variance |-> variance]

\* h.copy().reset()
Reset(h) == [c \in DOMAIN h |-> [s \in Shifts |-> [b \in VarBins |-> Bin(Rat(0), "0")]]]

\* h1 + h2
HistAdd(h1, h2) ==
    [c \in DOMAIN h1 |-> [s \in Shifts |-> [b \in VarBins |->
        Bin(RatAdd(h1[c][s][b].value, h2[c][s][b].value),
            IF h1[c][s][b].variance = "0" /\ h2[c][s][b].variance = "0"
            THEN "0" ELSE "sumw2")]]]

\* sum(hs, start)
RECURSIVE HistSum(_, _)
HistSum(hs, start) ==
    IF hs = <<>> THEN start ELSE HistSum(Tail(hs), HistAdd(start, Head(hs)))

\* integrate_num(num, axis=1): the sum over the variable axis, shift by shift
integrate_num(num) ==
    [s \in Shifts |-> RatAdd(num[s]["low"], num[s]["high"])]

\* the configuration's categories: tags and the auxiliary qcd_group
Categories ==
    [ g_os_iso    |-> [tags |-> {"os", "iso"},    qcd_group |-> "g"],
      g_os_noniso |-> [tags |-> {"os", "noniso"}, qcd_group |-> "g"],
      g_ss_iso    |-> [tags |-> {"ss", "iso"},    qcd_group |-> "g"],
      g_ss_noniso |-> [tags |-> {"ss", "noniso"}, qcd_group |-> "g"],
      k_os_iso    |-> [tags |-> {"os", "iso"},    qcd_group |-> "k"],
      incl        |-> [tags |-> {},               qcd_group |-> ""] ]

\* the configuration's processes
Processes ==
    [ data    |-> [is_data |-> TRUE,  is_mc |-> FALSE, tags |-> {}],
      tt      |-> [is_data |-> FALSE, is_mc |-> TRUE,  tags |-> {}],
      dy      |-> [is_data |-> FALSE, is_mc |-> TRUE,  tags |-> {}],
      h       |-> [is_data |-> FALSE, is_mc |-> TRUE,  tags |-> {"signal"}],
      qcd_mu  |-> [is_data |-> FALSE, is_mc |-> TRUE,  tags |-> {"qcd"}],
      qcd_em  |-> [is_data |-> FALSE, is_mc |-> TRUE,  tags |-> {"qcd"}],
      qcd     |-> [is_data |-> FALSE, is_mc |-> TRUE,  tags |-> {}] ]

\* the mapping process -> histogram keeps the order of insertion: a
\* sequence of entries [proc, h]
Entry(proc, h) == [proc |-> proc, h |-> h]

\* hists[proc] = h
Put(hs, proc, h) ==
    IF \E i \in DOMAIN hs : hs[i].proc = proc
    THEN [i \in DOMAIN hs |-> IF hs[i].proc = proc THEN Entry(proc, h) ELSE hs[i]]
    ELSE Append(hs, Entry(proc, h))

\* hists[proc]
Get(hs, proc) == hs[CHOOSE i \in DOMAIN hs : hs[i].proc = proc].h

\* [h for p, h in hists.items() if p in procs]
HistsOf(hs, procs) ==
    LET kept == SelectSeq(hs, LAMBDA e : e.proc \in procs)
    IN  [i \in DOMAIN kept |-> kept[i].h]

\* the category ids on the category axes of all histograms
category_ids(hs) == UNION { DOMAIN hs[i].h : i \in DOMAIN hs }

RegionNames == { "os_iso", "os_noniso", "ss_iso", "ss_noniso" }

\* the region a category is filed under in its qcd group, "" for none
RegionOf(cat_id) ==
    LET tags == Categories[cat_id].tags
    IN  IF {"os", "iso"} \subseteq tags THEN "os_iso"
        ELSE IF {"os", "noniso"} \subseteq tags THEN "os_noniso"
        ELSE IF {"ss", "iso"} \subseteq tags THEN "ss_iso"
        ELSE IF {"ss", "noniso"} \subseteq tags THEN "ss_noniso"
        ELSE ""

\* qcd_groups[name]: region name -> category id, for the regions present
qcd_groups(ids, name) ==
    LET of(r) == { c \in ids : RegionOf(c) = r /\ Categories[c].qcd_group = name }
    IN  [r \in { r \in RegionNames : of(r) # {} } |-> CHOOSE c \in of(r) : TRUE]

complete_groups(ids) ==
    { name \in { Categories[c].qcd_group : c \in { c \in ids : RegionOf(c) # "" } } :
        Cardinality(DOMAIN qcd_groups(ids, name)) = 4 }

IsNonSignalMC ==
    { p \in DOMAIN Processes : Processes[p].is_mc /\ "signal" \notin Processes[p].tags }

IsData == { p \in DOMAIN Processes : Processes[p].is_data }

\* qcd_estimation, lines 95-96
mc_hists_withSignal(hs) == HistsOf(hs, { p \in DOMAIN Processes : Processes[p].is_mc })

mc_hists(hs) == HistsOf(hs, IsNonSignalMC)

data_hists(hs) == HistsOf(hs, IsData)

\* sum(hs[1:], hs[0].copy())
SumOf(hs) == HistSum(Tail(hs), Head(hs))

\* hist_to_num(h[{"category": cat_id}]): shift -> variable -> value
hist_to_num(h, cat_id) ==
    [s \in Shifts |-> [b \in VarBins |-> h[cat_id][s][b].value]]

NumSub(x, y) == [s \in Shifts |-> [b \in VarBins |-> RatSub(x[s][b], y[s][b])]]

\* os_noniso_qcd * ((int_ss_iso / int_ss_noniso)[:, None])
Abcd(os_noniso_qcd, int_ss_iso, int_ss_noniso) ==
    [s \in Shifts |-> [b \in VarBins |->
        RatMul(os_noniso_qcd[s][b], RatDiv(int_ss_iso[s], int_ss_noniso[s]))]]

\* keep_variance_mask comes out of the uncertainties the number library
\* propagates; it is an input, false wherever unc_mc / value is not finite
KeepMasks(values) ==
    { keep \in [Shifts -> [VarBins -> BOOLEAN]] :
        \A s \in Shifts, b \in VarBins :
            keep[s][b] => RatFinite(values[s][b]) /\ values[s][b][1] # 0 }

\* variances[keep] = unc_mc[keep]**2 ; variances[~keep] = 0
KeepVariance(values, keep) ==
    [s \in Shifts |-> [b \in VarBins |->
        Bin(values[s][b], IF keep[s][b] THEN "unc_mc2" ELSE "0")]]

\* values[neg_int_mask] = 1e-5 ; variances[neg_int_mask] = 0
NegIntFill(bins, neg_int_mask) ==
    [s \in Shifts |-> [b \in VarBins |->
        IF neg_int_mask[s] THEN Bin(FillValue, "0") ELSE bins[s][b]]]

\* zero_mask = values <= 0 ; values[zero_mask] = 1e-5 ; variances[zero_mask] = 0
ZeroFill_strict(bins) ==
    [s \in Shifts |-> [b \in VarBins |->
        IF bins[s][b].value[1] < 0 THEN Bin(FillValue, "0") ELSE bins[s][b]]]

ZeroFill(bins) ==
    [s \in Shifts |-> [b \in VarBins |->
        IF RatLe0(bins[s][b].value) THEN Bin(FillValue, "0") ELSE bins[s][b]]]

\* the three sideband shapes of a group: data - mc
SidebandQcd(mc_hist, data_hist, group, region) ==
    NumSub(hist_to_num(data_hist, group[region]), hist_to_num(mc_hist, group[region]))

\* the (value, variance) bins of the group's os_iso category
os_iso_qcd(mc_hist, data_hist, group, keep) ==
    LET os_noniso_qcd == SidebandQcd(mc_hist, data_hist, group, "os_noniso")
        ss_iso_qcd == SidebandQcd(mc_hist, data_hist, group, "ss_iso")
        ss_noniso_qcd == SidebandQcd(mc_hist, data_hist, group, "ss_noniso")
        int_ss_iso == integrate_num(ss_iso_qcd)
        int_ss_noniso == integrate_num(ss_noniso_qcd)
        int_ss_iso_neg == [s \in Shifts |-> RatLe0(int_ss_iso[s])]
        int_ss_noniso_neg == [s \in Shifts |-> RatLe0(int_ss_noniso[s])]
        values == Abcd(os_noniso_qcd, int_ss_iso, int_ss_noniso)
        neg_int_mask == [s \in Shifts |-> int_ss_iso_neg[s] \/ int_ss_noniso_neg[s]]
    IN  ZeroFill(NegIntFill(KeepVariance(values, keep), neg_int_mask))

\* the estimate before any filling, for the choice of the mask
os_iso_qcd_values(mc_hist, data_hist, group) ==
    Abcd(SidebandQcd(mc_hist, data_hist, group, "os_noniso"),
         integrate_num(SidebandQcd(mc_hist, data_hist, group, "ss_iso")),
         integrate_num(SidebandQcd(mc_hist, data_hist, group, "ss_noniso")))

\* qcd_hist.view()[cat_index, ...] = bins, at the index of the os_iso category
Insert(qcd_hist, cat_id, bins) ==
    [c \in DOMAIN qcd_hist |-> IF c = cat_id THEN bins ELSE qcd_hist[c]]

\* ------------------------------------------- hist_hooks.py: qcd_estimation
At(at, todo) == [at |-> at, todo |-> todo]

\* the estimator is not running
PhiCPIdle ==
    /\ p4hcandinfodict = <<>>
    /\ method_leg1 = "" /\ mode_leg1 = ""
    /\ method_leg2 = "" /\ mode_leg2 = ""
    /\ pc = "idle"
    /\ prep1 = NoPrep /\ prep2 = NoPrep
    /\ boostv = <<>>
    /\ rsargs = <<>>
    /\ rs1 = NoRs /\ rs2 = NoRs
    /\ phicp_input_vec_dict = <<>>
    /\ fperr = 0
    /\ angles = NoAngles
    /\ phicp = NoPhiCP
    /\ raised = ""
    /\ calls = <<>>
    /\ nswap = 0 /\ first = NoAngles
    /\ rslib = <<>>

CompleteAxis ==
    { "g_os_iso", "g_os_noniso", "g_ss_iso", "g_ss_noniso", "k_os_iso", "incl" }

IncompleteAxis == CompleteAxis \ { "g_ss_noniso" }

\* a filled histogram with the bin contents counts[c][s][b]
Filled(counts) ==
    [c \in DOMAIN counts |-> [s \in Shifts |-> [b \in VarBins |->
        Bin(Rat(counts[c][s][b]), "sumw2")]]]

Counts == 0 .. MaxCount

\* the inputs of qcd_estimation: data with any content in the os_noniso
\* bins (the same in both shifts), in the first ss_iso bin of each shift and
\* in the first ss_noniso bin of both shifts, simulation with fixed content
InputHist(proc, axis, a, i, n) ==
    Filled([c \in axis |-> [s \in Shifts |-> [b \in VarBins |->
        IF proc = "data"
        THEN CASE c = "g_os_noniso" -> a[b]
               [] c = "g_ss_iso"    -> IF b = "low" THEN i[s] ELSE 1
               [] c = "g_ss_noniso" -> IF b = "low" THEN n ELSE 1
               [] OTHER             -> 1
        ELSE IF proc = "dy"
        THEN (IF c = "g_os_noniso" THEN 1 ELSE 0)
        ELSE 1]]])

QcdProcLists ==
    { <<>>, << "data", "tt", "h" >>, << "tt", "data", "dy" >>,
      << "data", "h" >>, << "tt", "h" >> }

\* the lists with which the estimate is computed
FullProcLists == { << "data", "tt", "h" >>, << "tt", "data", "dy" >> }

QcdInit ==
    /\ PhiCPIdle
    /\ \E procs \in QcdProcLists, axis \in { CompleteAxis, IncompleteAxis },
          qcd \in BOOLEAN,
          a \in [VarBins -> Counts], i \in [Shifts -> Counts], n \in Counts :
        /\ (procs \notin FullProcLists \/ axis # CompleteAxis \/ ~qcd)
               => /\ a = [b \in VarBins |-> MaxCount]
                  /\ i = [s \in Shifts |-> MaxCount]
                  /\ n = MaxCount
        /\ hists = [k \in DOMAIN procs |-> Entry(procs[k], InputHist(procs[k], axis, a, i, n))]
        /\ config = [qcd |-> qcd]
    /\ hists_given = hists
    /\ hook_pc = At("qcd_estimation", {})
    /\ data_hist_tmp = <<>>
    /\ data_qcd_hist = <<>>

\* lines 52-103: the early exits, then the reset qcd histogram
QcdEnter ==
    /\ hook_pc.at = "qcd_estimation"
    /\ IF \/ hists = <<>>
          \/ ~config.qcd
          \/ complete_groups(category_ids(hists)) = {}
          \/ mc_hists(hists) = <<>>
          \/ data_hists(hists) = <<>>
       THEN /\ hook_pc' = At("returned", {})
            /\ UNCHANGED hists
       ELSE /\ hists' = Put(hists, "qcd", Reset(SumOf(mc_hists(hists))))
            /\ hook_pc' = At("groups", complete_groups(category_ids(hists)))
    /\ UNCHANGED << hists_given, config, data_hist_tmp, data_qcd_hist >>
    /\ UNCHANGED phicpvars

\* lines 104-191: one pass of the loop over the complete groups; mc_hist
\* and data_hist are the sums taken of the mapping before line 103
QcdFillGroup ==
    /\ hook_pc.at = "groups"
    /\ \E name \in hook_pc.todo :
        LET group == qcd_groups(category_ids(hists_given), name)
            mc_hist == SumOf(mc_hists(hists_given))
            data_hist == SumOf(data_hists(hists_given))
        IN  /\ \E keep \in KeepMasks(os_iso_qcd_values(mc_hist, data_hist, group)) :
                hists' = Put(hists, "qcd",
                             Insert(Get(hists, "qcd"), group["os_iso"],
                                    os_iso_qcd(mc_hist, data_hist, group, keep)))
            /\ hook_pc' = At("groups", hook_pc.todo \ { name })
    /\ UNCHANGED << hists_given, config, data_hist_tmp, data_qcd_hist >>
    /\ UNCHANGED phicpvars

\* line 193 (498 in closure_test): return hists
HookReturn ==
    /\ hook_pc.at = "groups"
    /\ hook_pc.todo = {}
    /\ hook_pc' = At("returned", {})
    /\ UNCHANGED << hists, hists_given, config, data_hist_tmp, data_qcd_hist >>
    /\ UNCHANGED phicpvars

QcdNext == QcdEnter \/ QcdFillGroup \/ HookReturn

SpecQcd == QcdInit /\ [][QcdNext]_vars

\* --------------------------------------------- hist_hooks.py: closure_test
IsBackgroundMC ==
    { p \in DOMAIN Processes :
        /\ Processes[p].is_mc
        /\ "signal" \notin Processes[p].tags
        /\ "qcd" \notin Processes[p].tags }

IsQcdTagged == { p \in DOMAIN Processes : "qcd" \in Processes[p].tags }

\* closure_test, lines 388-389
closure_mc_hists(hs) == HistsOf(hs, IsBackgroundMC)

data_qcd_hists(hs) == HistsOf(hs, IsQcdTagged)

\* lines 392-394: mc_hist, the sum of the qcd-tagged histograms as line 393
\* starts it (from mc_hists[0].copy()), and their sum
PseudoData(hs) ==
    LET mc_hist == SumOf(closure_mc_hists(hs))
        data_qcd_sum == HistSum(Tail(data_qcd_hists(hs)), Head(closure_mc_hists(hs)))
    IN  HistAdd(data_qcd_sum, mc_hist)

ClosureProcLists ==
    { <<>>, << "data", "tt", "qcd_mu" >>,
      << "qcd_mu", "qcd_em", "tt", "dy", "h", "data" >>,
      << "tt", "dy", "h", "data" >>, << "qcd_mu", "h", "data" >>,
      << "dy", "qcd_em" >> }

\* the processes of a list whose histograms closure_test adds up or leaves out
Simulated(procs) == { procs[k] : k \in { k \in DOMAIN procs : Processes[procs[k]].is_mc } }

\* the inputs of closure_test: every simulated process with the same
\* content in all its bins, data with 1
ClosureInit ==
    /\ PhiCPIdle
    /\ \E procs \in ClosureProcLists, axis \in { CompleteAxis, IncompleteAxis },
          qcd \in BOOLEAN :
        \E w \in [Simulated(procs) -> Counts] :
            /\ (axis # CompleteAxis \/ ~qcd) => w = [p \in Simulated(procs) |-> MaxCount]
            /\ hists = [k \in DOMAIN procs |->
                   Entry(procs[k],
                         Filled([c \in axis |-> [s \in Shifts |-> [b \in VarBins |->
                             IF procs[k] = "data" THEN 1 ELSE w[procs[k]]]]]))]
            /\ config = [qcd |-> qcd]
    /\ hists_given = hists
    /\ hook_pc = At("closure_test", {})
    /\ data_hist_tmp = <<>>
    /\ data_qcd_hist = <<>>

\* lines 345-394: the early exits, then the pseudo-data histogram
ClosureEnter ==
    /\ hook_pc.at = "closure_test"
    /\ IF \/ hists = <<>>
          \/ ~config.qcd
          \/ complete_groups(category_ids(hists)) = {}
          \/ closure_mc_hists(hists) = <<>>
          \/ data_qcd_hists(hists) = <<>>
       THEN /\ hook_pc' = At("returned", {})
            /\ UNCHANGED data_hist_tmp
       ELSE /\ data_hist_tmp' = PseudoData(hists)
            /\ hook_pc' = At("pseudo_data", {})
    /\ UNCHANGED << hists, hists_given, config, data_qcd_hist >>
    /\ UNCHANGED phicpvars

\* lines 396-408: data_hists[0] is an IndexError without a data histogram.
\* What Hist.fill makes of a histogram as its argument is the histogram
\* library's: the call either raises or leaves the contents of data_hist_tmp
\* in the reset copy.  Then the reset qcd histogram is put into the mapping.
ClosureFill ==
    /\ hook_pc.at = "pseudo_data"
    /\ \/ /\ data_hists(hists) = <<>>
          /\ hook_pc' = At("raised", {})
          /\ UNCHANGED << hists, data_qcd_hist >>
       \/ /\ data_hists(hists) # <<>>
          /\ hook_pc' = At("raised", {})
          /\ UNCHANGED << hists, data_qcd_hist >>
       \/ /\ data_hists(hists) # <<>>
          /\ data_qcd_hist' = data_hist_tmp
          /\ hists' = Put(hists, "qcd", Reset(SumOf(closure_mc_hists(hists))))
          /\ hook_pc' = At("groups", complete_groups(category_ids(hists)))
    /\ UNCHANGED << hists_given, config, data_hist_tmp >>
    /\ UNCHANGED phicpvars

\* lines 409-496: one pass of the loop, data_qcd_hist in the place of data
ClosureFillGroup ==
    /\ hook_pc.at = "groups"
    /\ \E name \in hook_pc.todo :
        LET group == qcd_groups(category_ids(hists_given), name)
            mc_hist == SumOf(closure_mc_hists(hists_given))
        IN  /\ \E keep \in KeepMasks(os_iso_qcd_values(mc_hist, data_qcd_hist, group)) :
                hists' = Put(hists, "qcd",
                             Insert(Get(hists, "qcd"), group["os_iso"],
                                    os_iso_qcd(mc_hist, data_qcd_hist, group, keep)))
            /\ hook_pc' = At("groups", hook_pc.todo \ { name })
    /\ UNCHANGED << hists_given, config, data_hist_tmp, data_qcd_hist >>
    /\ UNCHANGED phicpvars

ClosureNext == ClosureEnter \/ ClosureFill \/ ClosureFillGroup \/ HookReturn

SpecClosure == ClosureInit /\ [][ClosureNext]_vars

\* ================================================================== claims
Returned == pc = "returned"

Called == pc = "called"

\* the stages of one successful call, in order
StageOrder ==
    << "prepareVecs1", "prepareVecs2", "getBoost", "reStructureVecs1",
       "reStructureVecs2", "ComputeAcopAngle" >>

IsPrefix(a, b) == Len(a) <= Len(b) /\ a = SubSeq(b, 1, Len(a))

\* _prepareVecs has returned a tuple for leg 1, for leg 2
Prepared1 == pc \notin {"prepareVecs1", "raised"} \/ Len(calls) > 1

Prepared2 == pc \notin {"prepareVecs1", "prepareVecs2", "raised"} \/ Len(calls) > 2

\* the six raw vectors do not all hold the same number of events
Misaligned ==
    \E k1, k2 \in DOMAIN p4hcandinfodict :
        p4hcandinfodict[k1].n # p4hcandinfodict[k2].n

\* C1, as stated: whenever arccos(R1.R2) is a value in [0, pi], the angle
\* GetPhiCP returns satisfies 0 <= angle < 2 pi, with 2 pi itself excluded.
C1_HalfOpenRange ==
    (Returned /\ ~Misaligned /\ ~angles.arccos.nan)
        => (~phicp.nan /\ 0 <= phicp.v /\ phicp.v < TwoPi)

\* C1, amended: whenever arccos(R1.R2) is a value in [0, pi], the angle
\* ComputeAcopAngle computes and GetPhiCP returns satisfies 0 <= angle <= 2 pi;
\* 2 pi itself is returned (the map keeps it: it subtracts only above 2 pi).
C1_ClosedRange ==
    (Returned /\ ~angles.arccos.nan)
        => /\ ~angles.acop.nan /\ 0 <= angles.acop.v /\ angles.acop.v <= TwoPi
           /\ ~phicp.nan /\ phicp.v = angles.acop.v

\* a call in which the sign is negative and the half turn is added, so that
\* the angle passes 2 pi before the map
C1_Witness ==
    /\ Returned
    /\ FLt(angles.sign, F(0))
    /\ angles.Y # None /\ angles.Y[1] < 0
    /\ FGt(angles.shifted, F(TwoPi))
    /\ FLt(angles.acop, F(TwoPi))

\* C2: ComputeAcopAngle clips R1.R2 into [-1, 1] before arccos, so for two
\* unit vectors R1, R2 the angle is defined (never NaN) whatever the rounding
\* error of the dot product.
C2_NeverNaN ==
    (Called /\ phicp_input_vec_dict["R1"] # NaNV /\ phicp_input_vec_dict["R2"] # NaNV)
        => (~angles.arccos.nan /\ ~angles.acop.nan)

\* C3: _prepareVecs fails for every (method, mode) outside the allowed table:
\* a leg for which it returned a tuple has an allowed pair, and neither P nor
\* R of a returned tuple is None.
C3_PrepareRejects ==
    /\ (Prepared1 /\ ~Misaligned)
          => (<<method_leg1, mode_leg1>> \in AllowedPairs
              /\ prep1.P # NoneVec /\ prep1.R # NoneVec)
    /\ (Prepared2 /\ ~Misaligned)
          => (<<method_leg2, mode_leg2>> \in AllowedPairs
              /\ prep2.P # NoneVec /\ prep2.R # NoneVec)

\* C4: _prepareVecs called with method DP and a mode other than rho, a1
\* raises an error and returns nothing: the call of GetPhiCP ends in that
\* stage with a RuntimeError and no prepared vectors for the leg.
C4_DPWrongModeRaises ==
    /\ (method_leg1 = "DP" /\ mode_leg1 \notin {"rho", "a1"} /\ pc # "prepareVecs1")
          => (pc = "raised" /\ raised = "RuntimeError"
              /\ calls = <<"prepareVecs1">> /\ prep1 = NoPrep)
    /\ (method_leg2 = "DP" /\ mode_leg2 \notin {"rho", "a1"}
          /\ pc \notin {"prepareVecs1", "prepareVecs2"})
          => (pc = "raised" /\ raised = "RuntimeError"
              /\ Len(calls) <= 2 /\ prep2 = NoPrep)

\* _prepareVecs has been called for leg 2 with DP, pi (leg 1 was accepted)
C4_Witness ==
    /\ method_leg2 = "DP" /\ mode_leg2 = "pi"
    /\ calls = <<"prepareVecs1", "prepareVecs2">>
    /\ pc = "raised"

\* the mapping table of (method, mode) to P and R, for the raw vectors of a leg
TableOK(method, mode, hcand, hcand_pi, hcand_pi0, prep) ==
    /\ prep.C = hcand.charge
    /\ <<method, mode>> = <<"DP", "rho">> => (prep.P = hcand_pi /\ prep.R = hcand_pi0)
    /\ <<method, mode>> = <<"DP", "a1">> =>
          (prep.P \in {Slice(hcand_pi, "1:2"), Slice(hcand_pi, "2:3")}
           /\ prep.R = Slice(hcand_pi, "0:1"))
    /\ (method = "PV" /\ mode \in {"pi", "rho", "a1"}) =>
          (prep.P = hcand /\ prep.R = hcand_pi)
    /\ (method = "IP" /\ mode \in {"e", "mu"}) => (prep.P = hcand /\ prep.R = hcand)
    /\ <<method, mode>> = <<"IP", "pi">> => (prep.P = hcand_pi /\ prep.R = hcand)

\* C5: for every allowed (method, mode), _prepareVecs returns the P and R of
\* the mapping table and the candidate's charge unmodified.
C5_MappingTable ==
    /\ (Prepared1 /\ <<method_leg1, mode_leg1>> \in AllowedPairs)
          => TableOK(method_leg1, mode_leg1, p4hcandinfodict["p4h1"],
                     p4hcandinfodict["p4h1pi"], p4hcandinfodict["p4h1pi0"], prep1)
    /\ (Prepared2 /\ <<method_leg2, mode_leg2>> \in AllowedPairs)
          => TableOK(method_leg2, mode_leg2, p4hcandinfodict["p4h2"],
                     p4hcandinfodict["p4h2pi"], p4hcandinfodict["p4h2pi0"], prep2)

\* both legs prepared: a DP/a1 leg whose selected pion is pion[1], an IP/pi leg
C5_Witness ==
    /\ Prepared2
    /\ <<method_leg1, mode_leg1>> = <<"DP", "a1">>
    /\ prep1.P.slice = "1:2"
    /\ <<method_leg2, mode_leg2>> = <<"IP", "pi">>
    /\ prep2.P.id = "p4h2pi" /\ prep2.C = p4hcandinfodict["p4h2"].charge

BothPVpi ==
    /\ method_leg1 = "PV" /\ method_leg2 = "PV"
    /\ mode_leg1 = "pi" /\ mode_leg2 = "pi"

\* C6: the frame _getBoost builds is R1 + R2 if and only if both legs are
\* PV with mode pi; for every other combination it is P1 + P2.
C6_FrameRule ==
    boostv # <<>> =>
        /\ BothPVpi => boostv = <<prep1.R, prep2.R>>
        /\ ~BothPVpi => boostv = <<prep1.P, prep2.P>>
        /\ (<<prep1.R, prep2.R>> # <<prep1.P, prep2.P>>)
              => (boostv = <<prep1.R, prep2.R>> <=> BothPVpi)

\* the frame has been computed for two PV legs of which only one is a pi
C6_Witness ==
    /\ boostv # <<>>
    /\ method_leg1 = "PV" /\ method_leg2 = "PV"
    /\ mode_leg1 = "pi" /\ mode_leg2 = "rho"
    /\ boostv = <<p4hcandinfodict["p4h1"], p4hcandinfodict["p4h2"]>>

Count(seq, x) == Cardinality({i \in 1..Len(seq) : seq[i] = x})

\* C7: in every call one boost vector is computed, from a vector of leg 1 and
\* a vector of leg 2 together, and it is the boost passed to _reStructureVecs
\* for leg 1 and for leg 2.
C7_OneJointBoost ==
    /\ Count(calls, "getBoost") <= 1
    /\ Returned => Count(calls, "getBoost") = 1
    /\ boostv # <<>> =>
          (boostv[1] \in {prep1.P, prep1.R} /\ boostv[2] \in {prep2.P, prep2.R})
    /\ \A i \in 1..Len(rsargs) : rsargs[i][1] = boostv /\ boostv # <<>>

\* both legs have been restructured
C7_Witness ==
    /\ Len(rsargs) = 2
    /\ rsargs[1][2] = prep1.P /\ rsargs[2][2] = prep2.P
    /\ rsargs[1][1] = rsargs[2][1]
    /\ Returned

\* C8: a successful call runs the stages in the fixed order, each once; at any
\* moment the stages entered so far are a beginning of that order.
C8_StageOrder ==
    /\ IsPrefix(calls, StageOrder)
    /\ Returned => calls = StageOrder

C8_Witness == Returned /\ Len(calls) = 6 /\ ~phicp.nan

\* the legs of the dictionary by the sign of their charge now
NegLeg == IF phicp_input_vec_dict["C1"] < 0 THEN "1" ELSE "2"

PosLeg == IF phicp_input_vec_dict["C1"] < 0 THEN "2" ELSE "1"

\* C9, as stated: with the vectors fixed and opposite charges, exchanging the
\* charge labels negates the sign of _getSign, and a second exchange gives
\* back the original sign and angle.
C9_SwapNegates ==
    /\ (Called /\ nswap = 1 /\ ~first.sign.nan /\ ~first.acop.nan)
          => angles.sign.v = -first.sign.v
    /\ (Called /\ nswap = 2) => (angles.sign = first.sign /\ angles.acop = first.acop)

\* C9, amended: exchanging the charge labels replaces the sign Pa.(Hb x Ha)
\* by Pb.(Ha x Hb): the cross product is negated and P is taken from the other
\* leg.  The sign is negated when P1 = P2, is unchanged when P1 = -P2, and in
\* general the two signs add up to (Pb - Pa).(Ha x Hb); a second exchange gives
\* back the original sign and angle.
C9_SwapLaw ==
    LET d  == phicp_input_vec_dict
        Pn == d["P" \o NegLeg]
        Pp == d["P" \o PosLeg]
        Hn == d["H" \o NegLeg]
        Hp == d["H" \o PosLeg]
    IN  /\ (Called /\ nswap = 1 /\ ~first.sign.nan) =>
              /\ ~angles.sign.nan
              /\ angles.sign.v + first.sign.v = VDot(VSub(Pn, Pp), VCross(Hp, Hn)).v
              /\ Pn = Pp => angles.sign.v = -first.sign.v
              /\ Pn = VNeg(Pp) => angles.sign.v = first.sign.v
        /\ (Called /\ nswap = 2) => angles = first

\* the labels exchanged once, on legs with the same P and a sign that is not 0
C9_Witness ==
    /\ Called /\ nswap = 1
    /\ phicp_input_vec_dict["P1"] = phicp_input_vec_dict["P2"]
    /\ ~first.sign.nan /\ first.sign.v > 0 /\ angles.sign.v < 0

\* C10: the phase-shift step adds exactly pi to the sign-corrected angle when
\* Y is present and negative, and leaves it unchanged when Y is 0, positive
\* or absent; the map into [0, 2 pi] comes after it (the shifted angle may
\* exceed 2 pi, and the result differs from it by a whole turn at most).
C10_PhaseShift ==
    (Called /\ ~angles.signed.nan) =>
        /\ ~angles.shifted.nan /\ ~angles.acop.nan
        /\ (angles.Y # None /\ angles.Y[1] < 0)
              => angles.shifted.v = angles.signed.v + Pi
        /\ ~(angles.Y # None /\ angles.Y[1] < 0)
              => angles.shifted.v = angles.signed.v
        /\ angles.shifted.v <= TwoPi => angles.acop.v = angles.shifted.v
        /\ angles.shifted.v > TwoPi => angles.acop.v = angles.shifted.v - TwoPi

\* a call with Y = 0 (no half turn) on a sign-corrected angle of 3 pi / 2
C10_Witness ==
    /\ Called /\ nswap = 0
    /\ angles.Y # None /\ angles.Y[1] = 0
    /\ angles.signed = F(3) /\ angles.shifted = F(3)

\* C11: the map into [0, 2 pi] is idempotent on every angle the first three
\* steps can produce (0 to 3 pi): the angle a call ends with lies in
\* [0, 2 pi] and the map applied to it once more gives the same angle.
C11_WrapIdempotent ==
    (Called /\ ~angles.shifted.nan) =>
        /\ 0 <= angles.shifted.v /\ angles.shifted.v <= 3 * Pi
        /\ angles.acop = Wrap(angles.shifted)
        /\ Wrap(angles.acop) = angles.acop

\* a call whose shifted angle is 5 pi / 2, which the map moves to pi / 2
C11_Witness ==
    /\ Called /\ nswap = 0
    /\ angles.shifted = F(5) /\ angles.acop = F(1)

\* C12: for R1 = (1,0,0) and R2 = (-1,0,0) (a dot product that is exact: no
\* rounding error), a triple-product sign >= 0 and no phase shift on either
\* leg, ComputeAcopAngle returns exactly pi.
C12_BackToBack ==
    (/\ Called
     /\ phicp_input_vec_dict["R1"] = <<1,0,0>>
     /\ phicp_input_vec_dict["R2"] = <<-1,0,0>>
     /\ phicp_input_vec_dict["Y1"] = None /\ phicp_input_vec_dict["Y2"] = None
     /\ fperr = 0
     /\ ~angles.sign.nan /\ angles.sign.v >= 0)
        => angles.acop = F(Pi)

\* such a call, made on two legs without a phase shift
C12_Witness ==
    /\ Called /\ nswap = 0
    /\ phicp_input_vec_dict["R1"] = <<1,0,0>>
    /\ phicp_input_vec_dict["R2"] = <<-1,0,0>>
    /\ phicp_input_vec_dict["Y1"] = None /\ phicp_input_vec_dict["Y2"] = None
    /\ fperr = 0
    /\ angles.sign = F(0) /\ angles.arccos = F(Pi) /\ angles.acop = F(Pi)

\* two legs with a phase shift each (DP legs), R1 orthogonal to R2 and
\* Y1 * Y2 < 0
OrthogonalDP ==
    /\ phicp_input_vec_dict["Y1"] # None /\ phicp_input_vec_dict["Y2"] # None
    /\ phicp_input_vec_dict["R1"] # NaNV /\ phicp_input_vec_dict["R2"] # NaNV
    /\ VDot(phicp_input_vec_dict["R1"], phicp_input_vec_dict["R2"]) = F(0)
    /\ YLt0(YMul(phicp_input_vec_dict["Y1"], phicp_input_vec_dict["Y2"]))

\* C13, as stated: for two DP legs with R1.R2 = 0 and Y1*Y2 < 0,
\* ComputeAcopAngle returns 3 pi / 2 whatever the triple-product sign is.
C13_AnySign == (Called /\ OrthogonalDP) => angles.acop = F(3)

\* C13, amended: for two DP legs with R1.R2 = 0 and Y1*Y2 < 0,
\* ComputeAcopAngle returns 3 pi / 2 when the triple-product sign is >= 0
\* (pi/2 + pi), and pi / 2 when it is negative (2 pi - pi/2 + pi = 5 pi / 2,
\* which the map into [0, 2 pi] moves to pi / 2).
C13_BySign ==
    (Called /\ OrthogonalDP) =>
        /\ ~angles.sign.nan
        /\ angles.sign.v >= 0 => angles.acop = F(3)
        /\ angles.sign.v < 0 => angles.acop = F(1)

\* such a call with a sign of exactly 0, which is not reflected
C13_Witness ==
    /\ Called /\ nswap = 0 /\ OrthogonalDP
    /\ angles.sign = F(0) /\ angles.signed = F(1) /\ angles.acop = F(3)

\* C14, as stated: _reStructureVecs raises an error for every mode that is
\* not allowed for the given method, in each of its three branches, instead
\* of returning (P, R, H, Y).
C14_RejectsDisallowed ==
    (pc # "call" /\ method_leg1 \in {"DP", "PV", "IP"}
                 /\ << method_leg1, mode_leg1 >> \notin AllowedPairs)
        => (pc = "raised" /\ raised = "RuntimeError")

\* the second direction of the leg lies along the first one
Collinear == rslib.d2 = rslib.d1 \/ rslib.d2 = VNeg(rslib.d1)

C15_ErrorsPropagate ==
    /\ (raised # "") <=> (pc = "raised")
    /\ pc = "raised" =>
         /\ phicp = NoPhiCP /\ angles = NoAngles
         /\ calls # <<>> /\ IsPrefix(calls, StageOrder)
         /\ Len(calls) <= 1 => prep1 = NoPrep
         /\ Len(calls) <= 2 => prep2 = NoPrep
         /\ Len(calls) <= 3 => boostv = <<>>
         /\ Len(calls) <= 4 => rs1 = NoRs
         /\ Len(calls) <= 5 => (rs2 = NoRs /\ phicp_input_vec_dict = <<>>)
         /\ ~ENABLED Next

\* the array library failing in the fourth stage, after three that succeeded
C15_Witness ==
    /\ pc = "raised" /\ raised = "ValueError"
    /\ calls = SubSeq(StageOrder, 1, 4)
    /\ boostv # <<>> /\ rs1 = NoRs

\* C16, as stated: ComputeAcopAngle accepts a dictionary only if its key set
\* is exactly the ten names; for every dictionary with a missing, extra or
\* differently named key it fails with the structural-mismatch error (the
\* assertion of line 128) before any angle is computed.
C16_ExactKeySet ==
    pc # "call" =>
        IF DOMAIN phicp_input_vec_dict = VecsKeys
        THEN pc = "called" /\ raised = ""
        ELSE pc = "raised" /\ raised = "AssertionError" /\ angles = NoAngles

\* C16, amended: ComputeAcopAngle accepts a dictionary only if its key set is
\* exactly the ten names.  A dictionary whose number of keys is not ten fails
\* with the assertion of line 128; a dictionary of ten keys of which one has
\* another name passes the assertion and fails with a KeyError at the lookup
\* of the missing name; both before any angle is computed.
C16_LengthThenLookup ==
    pc # "call" =>
        /\ DOMAIN phicp_input_vec_dict = VecsKeys => (pc = "called" /\ raised = "")
        /\ Cardinality(DOMAIN phicp_input_vec_dict) # 10
              => (pc = "raised" /\ raised = "AssertionError" /\ angles = NoAngles)
        /\ (/\ Cardinality(DOMAIN phicp_input_vec_dict) = 10
            /\ DOMAIN phicp_input_vec_dict # VecsKeys)
              => (pc = "raised" /\ raised = "KeyError" /\ angles = NoAngles)

\* a dictionary with R2 under another name: ten keys, and a KeyError
C16_Witness ==
    /\ pc = "raised" /\ raised = "KeyError"
    /\ DOMAIN phicp_input_vec_dict = (VecsKeys \ {"R2"}) \cup {"_R2"}
    /\ angles = NoAngles

\* C17, as stated: before _prepareVecs is invoked the six raw vectors are
\* checked to have the same batch length, and the call fails when they have
\* not: on misaligned vectors _prepareVecs never returns a tuple and GetPhiCP
\* never returns an angle.
C17_ValidatedFirst == Misaligned => (~Prepared1 /\ ~Returned)

RestructureFailed(k) == pc = "raised" /\ raised = "ValueError" /\ Len(calls) = 3 + k

\* the _reStructureVecs call of leg k has returned
Restructured(k) == Len(rsargs) >= k /\ ~RestructureFailed(k) /\ pc # "raised"

\* the raw pi0 of a leg is read by _reStructureVecs: PV in mode rho only
Pi0Read(method, mode) == method = "PV" /\ mode = "rho"

\* C21, as stated: _reStructureVecs reads only the frame and the prepared
\* (P, R) of the leg, never a raw input vector: whether the call of a leg
\* fails in the array library depends on the frame and on those two only.
C21_PreviousStageOnly ==
    /\ RestructureFailed(1) =>
          ~(Aligned(boostv, prep1.P) /\ Aligned(boostv, prep1.R))
    /\ RestructureFailed(2) =>
          ~(Aligned(boostv, prep2.P) /\ Aligned(boostv, prep2.R))

\* C21, amended: _reStructureVecs is passed the frame, the prepared (P, R) of
\* the leg and the raw pi0 vector of the leg, and reads the pi0 for PV in mode
\* rho (its call fails when the pi0 is out of line with the frame, and only
\* then or when P or R is); ComputeAcopAngle reads the restructured vectors
\* together with the charges C1, C2 that _prepareVecs took from the raw decay
\* candidates.
C21_StageInputs ==
    /\ Len(rsargs) >= 1 =>
          rsargs[1] = << boostv, prep1.P, prep1.R, p4hcandinfodict["p4h1pi0"],
                         method_leg1, mode_leg1 >>
    /\ Len(rsargs) >= 2 =>
          rsargs[2] = << boostv, prep2.P, prep2.R, p4hcandinfodict["p4h2pi0"],
                         method_leg2, mode_leg2 >>
    /\ (RestructureFailed(1) \/ Restructured(1)) =>
          (Restructured(1) <=>
             /\ Aligned(boostv, prep1.P) /\ Aligned(boostv, prep1.R)
             /\ Pi0Read(method_leg1, mode_leg1)
                   => Aligned(boostv, p4hcandinfodict["p4h1pi0"]))
    /\ (RestructureFailed(2) \/ Restructured(2)) =>
          (Restructured(2) <=>
             /\ Aligned(boostv, prep2.P) /\ Aligned(boostv, prep2.R)
             /\ Pi0Read(method_leg2, mode_leg2)
                   => Aligned(boostv, p4hcandinfodict["p4h2pi0"]))
    /\ phicp_input_vec_dict # <<>> =>
          /\ phicp_input_vec_dict["C1"] = p4hcandinfodict["p4h1"].charge
          /\ phicp_input_vec_dict["C2"] = p4hcandinfodict["p4h2"].charge
          /\ \A k \in {"P", "R", "H", "Y"} :
                /\ phicp_input_vec_dict[k \o "1"] = rs1[k]
                /\ phicp_input_vec_dict[k \o "2"] = rs2[k]
    /\ Returned => angles = AcopAngles(phicp_input_vec_dict, fperr)

\* the call of a PV leg in mode rho failing on its raw pi0 alone
C21_Witness ==
    /\ RestructureFailed(1)
    /\ method_leg1 = "PV" /\ mode_leg1 = "rho"
    /\ Aligned(boostv, prep1.P) /\ Aligned(boostv, prep1.R)
    /\ ~Aligned(boostv, p4hcandinfodict["p4h1pi0"])

\* the triple product with leg m taken as the negative and leg p as the
\* positive one
SignOf(m, p) ==
    VDot(phicp_input_vec_dict["P" \o m],
         VCross(phicp_input_vec_dict["H" \o p], phicp_input_vec_dict["H" \o m]))

\* C22, as stated: for every pair of charges in {-1,+1} x {-1,+1}, _getSign
\* takes Pm and Hm from a leg whose charge is negative and Hp from a leg whose
\* charge is positive.
C22_SortedByCharge ==
    Called =>
        /\ phicp_input_vec_dict["C" \o NegLeg] < 0
        /\ phicp_input_vec_dict["C" \o PosLeg] > 0
        /\ angles.sign = SignOf(NegLeg, PosLeg)

\* C22, amended: _getSign consults C1 only.  For legs of opposite charge, Pm
\* and Hm are those of the negative leg and Hp that of the positive leg.  For
\* C1 = C2 = -1, Pm and Hm are those of leg 1 and Hp that of leg 2, a negative
\* leg; for C1 = C2 = +1, Pm and Hm are those of leg 2, a positive leg, and Hp
\* that of leg 1.
C22_SortedByC1 ==
    Called =>
        LET C1 == phicp_input_vec_dict["C1"]
            C2 == phicp_input_vec_dict["C2"]
        IN  /\ (C1 < 0 /\ C2 > 0) => angles.sign = SignOf("1", "2")
            /\ (C1 > 0 /\ C2 < 0) => angles.sign = SignOf("2", "1")
            /\ (C1 < 0 /\ C2 < 0) => angles.sign = SignOf("1", "2")
            /\ (C1 > 0 /\ C2 > 0) => angles.sign = SignOf("2", "1")

\* leg 2 is the negative one, and taking it as the positive one would give
\* another sign
C22_Witness ==
    /\ Called /\ nswap = 0
    /\ phicp_input_vec_dict["C1"] > 0 /\ phicp_input_vec_dict["C2"] < 0
    /\ angles.sign = SignOf("2", "1") /\ ~angles.sign.nan
    /\ SignOf("1", "2") # SignOf("2", "1")

\* C23: the sign step replaces the raw angle a = arccos(R1.R2) with 2 pi - a
\* exactly when the triple-product sign is strictly negative; for a sign of 0,
\* a positive sign (and a sign that is NaN) the raw angle is kept; and the
\* half turn of the phase shift is added to the angle this step gives.
C23_SignStep ==
    (Called /\ ~angles.arccos.nan) =>
        /\ (~angles.sign.nan /\ angles.sign.v < 0)
              => angles.signed = F(TwoPi - angles.arccos.v)
        /\ ~(~angles.sign.nan /\ angles.sign.v < 0)
              => angles.signed = angles.arccos
        /\ angles.shifted \in {angles.signed, F(angles.signed.v + Pi)}

\* a negative sign on a raw angle of 0, reflected to 2 pi
C23_Witness ==
    /\ Called /\ nswap = 0
    /\ ~angles.sign.nan /\ angles.sign.v < 0
    /\ angles.arccos = F(0) /\ angles.signed = F(TwoPi)

\* C24: the combined phase shift is Y1 * Y2 when both legs have a Y, Y1 when
\* only leg 1 has one, Y2 when only leg 2 has one, and absent when neither
\* has; with Y absent no half turn is added.
C24_CombinedY ==
    Called =>
        LET Y1 == phicp_input_vec_dict["Y1"]
            Y2 == phicp_input_vec_dict["Y2"]
        IN  /\ (Y1 # None /\ Y2 # None)
                  => angles.Y = << Y1[1] * Y2[1], Y1[2] * Y2[2] >>
            /\ (Y1 # None /\ Y2 = None) => angles.Y = Y1
            /\ (Y1 = None /\ Y2 # None) => angles.Y = Y2
            /\ (Y1 = None /\ Y2 = None) => angles.Y = None
            /\ angles.Y = None => angles.shifted = angles.signed

\* only leg 1 has a Y, negative: the half turn comes from it alone
C24_Witness ==
    /\ Called /\ nswap = 0
    /\ phicp_input_vec_dict["Y1"] # None /\ phicp_input_vec_dict["Y2"] = None
    /\ angles.Y = phicp_input_vec_dict["Y1"] /\ angles.Y[1] < 0
    /\ ~angles.signed.nan /\ angles.shifted = F(angles.signed.v + Pi)

\* C25: what _reStructureVecs returns has a Y if and only if the method of
\* the leg is DP (the ratio of the energy difference to the energy sum); for
\* PV and IP the Y returned is None; and for DP and IP the H returned is the
\* R returned.
C25_YOnlyForDP ==
    Called =>
        /\ (rs1.Y # None) <=> (method_leg1 = "DP")
        /\ method_leg1 = "DP" => rs1.Y = << rslib.e1 - rslib.e2, rslib.e1 + rslib.e2 >>
        /\ method_leg1 \in {"PV", "IP"} => rs1.Y = None
        /\ method_leg1 \in {"DP", "IP"} => rs1.H = rs1.R

\* an IP leg restructured: no Y, and H is R, a unit vector
C25_Witness ==
    /\ Called /\ method_leg1 = "IP" /\ mode_leg1 = "mu"
    /\ rs1.Y = None /\ rs1.H = rs1.R /\ rs1.R = <<0,1,0>>

\* C26: for a DP leg in mode a1, the P that _prepareVecs takes from
\* _get_pi_a1_DP is pion[1] when |0.77526 - m(pion[0]+pion[1])| is strictly
\* smaller than |0.77526 - m(pion[0]+pion[2])| and pion[2] otherwise, a tie
\* included; the R of the leg is always pion[0].
C26_ClosestToRho ==
    (Called /\ method_leg1 = "DP" /\ mode_leg1 = "a1") =>
        LET d1 == RhoMass - rslib.Minv[1]
            d2 == RhoMass - rslib.Minv[2]
            a1 == IF d1 < 0 THEN -d1 ELSE d1
            a2 == IF d2 < 0 THEN -d2 ELSE d2
            pi == p4hcandinfodict["p4h1pi"]
        IN  /\ a1 < a2 => prep1.P = [pi EXCEPT !.slice = "1:2"]
            /\ a1 >= a2 => prep1.P = [pi EXCEPT !.slice = "2:3"]
            /\ prep1.R = [pi EXCEPT !.slice = "0:1"]
            /\ prep1.C = p4hcandinfodict["p4h1"].charge

\* a tie between a pair below and a pair above the rho mass: pion[2]
C26_Witness ==
    /\ Called /\ method_leg1 = "DP" /\ mode_leg1 = "a1"
    /\ rslib.Minv = << RhoMass - 1, RhoMass + 1 >>
    /\ prep1.P.slice = "2:3" /\ prep1.R.slice = "0:1"

\* the dictionary now is the one of the first call with its legs exchanged
Exchanged == pc = "called" /\ calls = << "exchange" >>

\* C27: for legs of opposite charge, ComputeAcopAngle on the dictionary with
\* the two legs exchanged returns what it returned before the exchange (the
\* same raw angle, sign, Y and angle).  For legs of equal charge the raw
\* angle and Y are the same, and the sign is that of the other assignment of
\* the legs, because only C1 is consulted.
C27_ExchangeSymmetric ==
    Exchanged =>
        /\ phicp_input_vec_dict["C1"] # phicp_input_vec_dict["C2"] => angles = first
        /\ phicp_input_vec_dict["C1"] = phicp_input_vec_dict["C2"] =>
              /\ angles.arccos = first.arccos /\ angles.Y = first.Y
              /\ angles.sign = SignOf(NegLeg, PosLeg)
              /\ first.sign = SignOf(PosLeg, NegLeg)

\* legs of opposite charge exchanged, with a negative sign and a half turn
C27_Witness ==
    /\ Exchanged
    /\ phicp_input_vec_dict["C1"] > 0 /\ phicp_input_vec_dict["C2"] < 0
    /\ phicp_input_vec_dict["P1"] # phicp_input_vec_dict["P2"]
    /\ phicp_input_vec_dict["Y1"] # None /\ phicp_input_vec_dict["Y2"] = None
    /\ ~first.sign.nan /\ first.sign.v < 0 /\ angles.sign = first.sign
    /\ first.shifted = F(first.signed.v + Pi) /\ angles.acop = first.acop

\* legs of equal charge exchanged, and the sign has changed with it
C27_EqualChargesDiffer ==
    /\ Exchanged
    /\ phicp_input_vec_dict["C1"] = phicp_input_vec_dict["C2"]
    /\ ~first.sign.nan /\ ~angles.sign.nan /\ angles.sign.v = -first.sign.v
    /\ first.sign.v # 0 /\ angles.acop # first.acop

\* the call of a histogram hook is over
HookReturned == hook_pc.at = "returned"

\* the cases in which the hook has nothing to estimate, read off the
\* mapping as it was given
GivenEmpty == hists_given = <<>>

NoQcdProcess == ~config.qcd

NoCompleteGroup ==
    \A name \in { "g", "k" } : \E r \in RegionNames :
        ~\E i \in DOMAIN hists_given : \E c \in DOMAIN hists_given[i].h :
            RegionOf(c) = r /\ Categories[c].qcd_group = name

NoNonSignalMC ==
    ~\E i \in DOMAIN hists_given :
        /\ Processes[hists_given[i].proc].is_mc
        /\ "signal" \notin Processes[hists_given[i].proc].tags

NoData == ~\E i \in DOMAIN hists_given : Processes[hists_given[i].proc].is_data

EarlyExitCase ==
    GivenEmpty \/ NoQcdProcess \/ NoCompleteGroup \/ NoNonSignalMC \/ NoData

\* C28: when the mapping is empty, the configuration has no "qcd" process,
\* no qcd group has all four regions, there is no non-signal MC histogram or
\* there is no data histogram, qcd_estimation goes from its entry straight to
\* its return and the mapping is the one it was given: no qcd entry is
\* added and no histogram is changed.
C28_EarlyExitsReturnGiven ==
    (hook_pc.at # "qcd_estimation" /\ EarlyExitCase)
        => (HookReturned /\ hists = hists_given)

\* qcd_estimation has returned a mapping with signal and data in it, a "qcd"
\* process in the configuration and a complete group, but no background MC
C28_Witness ==
    /\ HookReturned
    /\ NoNonSignalMC
    /\ ~GivenEmpty /\ ~NoQcdProcess /\ ~NoCompleteGroup /\ ~NoData
    /\ hists = hists_given

\* data minus background MC in a bin of the mapping as given
GivenQcd(c, s, b) ==
    RatSub(SumOf(data_hists(hists_given))[c][s][b].value,
           SumOf(mc_hists(hists_given))[c][s][b].value)

\* the integral over the variable axis of a sideband shape
GivenInt(c, s) == RatAdd(GivenQcd(c, s, "low"), GivenQcd(c, s, "high"))

\* a shift of group g whose ss_iso or ss_noniso integral is <= 0
NegShift(s) ==
    RatLe0(GivenInt("g_ss_iso", s)) \/ RatLe0(GivenInt("g_ss_noniso", s))

\* the ABCD estimate of a bin of a shift with positive integrals is <= 0
NonPositiveEstimate(s, b) ==
    RatLe0(RatMul(GivenQcd("g_os_noniso", s, b),
                  RatDiv(GivenInt("g_ss_iso", s), GivenInt("g_ss_noniso", s))))

\* C29: after qcd_estimation has filled the complete group, every bin of
\* the group's os_iso category of the qcd histogram is strictly positive:
\* every bin of a shift with a non-positive ss integral, and every other bin
\* whose estimate is non-positive, holds 1e-5 with variance 0; all other
\* categories hold the reset value 0.
C29_FilledBinsPositive ==
    (HookReturned /\ ~EarlyExitCase) =>
        LET qcd_hist == Get(hists, "qcd")
        IN  /\ \A s \in Shifts, b \in VarBins :
                /\ RatGt0(qcd_hist["g_os_iso"][s][b].value)
                /\ NegShift(s) => qcd_hist["g_os_iso"][s][b] = Bin(FillValue, "0")
                /\ (~NegShift(s) /\ NonPositiveEstimate(s, b))
                       => qcd_hist["g_os_iso"][s][b] = Bin(FillValue, "0")
            /\ \A c \in DOMAIN qcd_hist \ { "g_os_iso" }, s \in Shifts, b \in VarBins :
                qcd_hist[c][s][b] = Bin(Rat(0), "0")

\* a returned estimate with one shift filled for its integral, and in the
\* other shift one bin filled for its estimate next to one that is kept
C29_Witness ==
    /\ HookReturned /\ ~EarlyExitCase
    /\ NegShift("tau_up") /\ ~NegShift("nominal")
    /\ NonPositiveEstimate("nominal", "low")
    /\ ~NonPositiveEstimate("nominal", "high")
    /\ Get(hists, "qcd")["g_os_iso"]["nominal"]["low"] = Bin(FillValue, "0")
    /\ Get(hists, "qcd")["g_os_iso"]["nominal"]["high"].value # FillValue
    /\ Get(hists, "qcd")["g_os_iso"]["nominal"]["high"].variance = "unc_mc2"


\* C30: the pseudo-data histogram of closure_test is the sum of the
\* histograms of all processes tagged "qcd", each once, plus the sum of the
\* histograms of the MC processes that are neither signal nor tagged "qcd",
\* each once.
C30_PseudoDataIsQcdPlusMC ==
    hook_pc.at = "pseudo_data" =>
        data_hist_tmp = HistAdd(SumOf(HistsOf(hists_given, IsQcdTagged)),
                                SumOf(HistsOf(hists_given, IsBackgroundMC)))

====
